---- MODULE Spec2Model ----
(***************************************************************************)
(* A model of the analysis pipeline of ai-sales-rep: fetchSitemap          *)
(* (crawling/sitemap.ts), crawlWebsite and isRelevantUrl                   *)
(* (crawling/crawler.ts), extractPageContent                               *)
(* (crawling/content-extractor.ts), analyzeWithLLM and                     *)
(* generateBusinessSummary (analysis/llm-analyzer.ts), and the             *)
(* WebsiteAnalyzer that runs them (website-analyzer.ts).                   *)
(*                                                                         *)
(* JavaScript strings are sequences of one-character strings, so that      *)
(* toLowerCase, includes, startsWith, trim, split and join are computed    *)
(* character by character, as the code computes them.                      *)
(***************************************************************************)
EXTENDS Integers, Sequences, FiniteSets, TLC

VARIABLES
    pc,            \* position of the running browser function (crawlWebsite / extractPageContent)
    fn,            \* which function was called: "none", "crawlWebsite", "extractPageContent"
    baseUrl,       \* the baseUrl of crawlWebsite and of analyzeWithLLM
    maxPages,      \* crawlWebsite's maxPages
    browser,       \* the browser of the call: "none", "open", "closed"
    page,          \* the tab of the call: "none", "open"
    urlsToVisit,   \* crawler.ts:16, the frontier
    foundUrls,     \* crawler.ts:17, a Set, kept in insertion order
    visitedUrls,   \* crawler.ts:18, a Set, kept in insertion order
    currentUrl,    \* crawler.ts:22
    links,         \* crawler.ts:30, the links of the last evaluated page
    enqueued,      \* history: every URL ever put into urlsToVisit, in order
    errors,        \* history: how many times the per-page catch block ran (crawler.ts:51)
    result,        \* the list crawlWebsite returned
    url,           \* extractPageContent's url
    content,       \* content-extractor.ts:11, what extractPageContent returns
    document,      \* the document page.goto loaded, as it was before page.evaluate
    lpc,           \* position of analyzeWithLLM
    urls,          \* analyzeWithLLM's urls
    relevantKeywords, \* analyzeWithLLM's relevantKeywords
    prompt,        \* the interpolated parts of the prompt (llm-analyzer.ts:7-24)
    response,      \* the outcome of openai.chat.completions.create
    relevantUrls,  \* the list analyzeWithLLM returned
    spc,           \* position of fetchSitemap
    sitemapResponse, \* what fetch(sitemapUrl) settled with (sitemap.ts:7)
    sitemapDoc,    \* what parser.parseStringPromise resolved with (sitemap.ts:15)
    sitemapUrls,   \* what fetchSitemap returned: null or a list
    apc,           \* position of the WebsiteAnalyzer: its constructor, then analyze
    apiKey,        \* whether process.env.OPENAI_API_KEY is set
    companyName,   \* website-analyzer.ts:20, this.companyName
    analyzedPages, \* website-analyzer.ts:17, this.analyzedPages, the corpus
    relIndex,      \* how many entries of relevantUrls the for loop has taken
    log,           \* history: the calls analyze has made, in order
    openBrowsers,  \* how many launched browsers are not closed
    sumpc,         \* position of generateBusinessSummary
    summary,       \* what generateBusinessSummary returned
    callsLeft,     \* how many more times the caller calls analyze on the instance
    svpc,          \* position of saveResults (file-manager.ts)
    createBot,     \* saveResults' createBot
    sensayConfig,  \* saveResults' sensayConfig: null or a configuration
    bot,           \* file-manager.ts:50, what createSensayBot returned
    postResponse,  \* what axios.post settled with (bot-creator.ts:60)
    files,         \* history: the files fs.writeFile has written
    requests       \* history: how many replica-creation requests were sent

vars == <<pc, fn, baseUrl, maxPages, browser, page, urlsToVisit, foundUrls,
          visitedUrls, currentUrl, links, enqueued, errors, result, url, content,
          document, lpc, urls, relevantKeywords, prompt, response, relevantUrls,
          spc, sitemapResponse, sitemapDoc, sitemapUrls,
          apc, apiKey, companyName, analyzedPages, relIndex, log, openBrowsers,
          sumpc, summary, callsLeft,
          svpc, createBot, sensayConfig, bot, postResponse, files, requests>>

\* the locals of one crawlWebsite call
crawlVars == <<maxPages, urlsToVisit, foundUrls, visitedUrls, currentUrl, links,
               enqueued, errors, result>>

\* the locals of one extractPageContent call
extractVars == <<url, content, document>>

llmVars == <<lpc, urls, relevantKeywords, prompt, response, relevantUrls>>

\* the locals of one fetchSitemap call
sitemapVars == <<spc, sitemapResponse, sitemapDoc, sitemapUrls>>

\* the WebsiteAnalyzer instance and the history of its calls
analyzeVars == <<apc, apiKey, callsLeft, companyName, analyzedPages, relIndex, log>>

summaryVars == <<sumpc, summary>>

\* the locals of one saveResults call and the history of its effects
saveVars == <<svpc, createBot, sensayConfig, bot, postResponse, files, requests>>

pipelineVars == <<sitemapVars, analyzeVars, summaryVars, saveVars>>


(***************************************************************************)
(* Bounds of the model.                                                    *)
(***************************************************************************)
\* the largest maxPages a crawl is called with
MaxPagesBound == 3
\* the most links one page evaluation returns
MaxLinks == 2
\* how far list lengths go around 0, around the 15-entry cap and around the 50-entry cap
Slack == 2
\* the most <url> entries a sitemap holds
MaxEntries == 2
\* the most pages of a corpus handed to generateBusinessSummary
MaxCorpus == 2
\* how far the page text lengths go around the 100- and 3000-character marks
LenSlack == 1

(***************************************************************************)
(* Program constants.                                                      *)
(***************************************************************************)
\* llm-analyzer.ts:7   urls.slice(0, 50)
PromptCap == 50
\* llm-analyzer.ts:37 and :43   .slice(0, 15)
MaxRelevant == 15
\* llm-analyzer.ts:55   page.content.substring(0, 1500)
SummaryCut == 1500
\* crawler.ts:11   maxPages: number = 20
DefaultMaxPages == 20
\* website-analyzer.ts:68   content.content.length > 100
AdmitOver == 100
\* website-analyzer.ts:73   content.content.substring(0, 3000)
CorpusCut == 3000

(***************************************************************************)
(* Strings.                                                                *)
(***************************************************************************)
Range(s) == {s[i] : i \in 1..Len(s)}

NoDup(s) == \A i, j \in 1..Len(s) : s[i] = s[j] => i = j

Min(a, b) == IF a <= b THEN a ELSE b

\* Array.prototype.slice(0, n)
Take(s, n) == SubSeq(s, 1, Min(n, Len(s)))

\* block repeated up to length n
Cycle(block, n) == [i \in 1..n |-> block[((i - 1) % Len(block)) + 1]]

\* String.prototype.toLowerCase, on the characters the model uses
LowerChar(c) ==
    CASE c = "A" -> "a" [] c = "B" -> "b" [] c = "C" -> "c" [] c = "D" -> "d"
      [] c = "E" -> "e" [] c = "F" -> "f" [] c = "G" -> "g" [] c = "H" -> "h"
      [] c = "I" -> "i" [] c = "J" -> "j" [] c = "K" -> "k" [] c = "L" -> "l"
      [] c = "M" -> "m" [] c = "N" -> "n" [] c = "O" -> "o" [] c = "P" -> "p"
      [] c = "Q" -> "q" [] c = "R" -> "r" [] c = "S" -> "s" [] c = "T" -> "t"
      [] c = "U" -> "u" [] c = "V" -> "v" [] c = "W" -> "w" [] c = "X" -> "x"
      [] c = "Y" -> "y" [] c = "Z" -> "z" [] OTHER -> c

toLowerCase(s) == [i \in 1..Len(s) |-> LowerChar(s[i])]

\* String.prototype.startsWith
startsWith(s, p) == Len(p) <= Len(s) /\ SubSeq(s, 1, Len(p)) = p

\* String.prototype.includes
includes(s, sub) ==
    \E i \in 0..(Len(s) - Len(sub)) : SubSeq(s, i + 1, i + Len(sub)) = sub

\* the characters String.prototype.trim and the regex class \s remove
IsSpace(c) == c \in {" ", "\t", "\n", "\r"}

\* String.prototype.trim
trim(s) ==
    LET keep == {i \in 1..Len(s) : ~IsSpace(s[i])}
    IN  IF keep = {} THEN <<>>
        ELSE LET lo == CHOOSE i \in keep : \A j \in keep : i <= j
                 hi == CHOOSE i \in keep : \A j \in (i + 1)..Len(s) : IsSpace(s[j])
             IN  SubSeq(s, lo, hi)

\* String.prototype.split('\n'): the pieces between the newlines, empty ones kept
split(s) ==
    LET nl    == {i \in 1..Len(s) : s[i] = "\n"}
        ends  == nl \cup {Len(s) + 1}
        start(e) == IF \E i \in nl : i < e
                    THEN (CHOOSE i \in nl : i < e /\ \A j \in nl : j < e => j <= i) + 1
                    ELSE 1
        kth[k \in 1..Cardinality(ends)] ==
            CHOOSE e \in ends : Cardinality({x \in ends : x < e}) = k - 1
    IN  [k \in 1..Cardinality(ends) |-> SubSeq(s, start(kth[k]), kth[k] - 1)]

\* Array.prototype.join('\n')
RECURSIVE join(_)
join(ss) ==
    IF ss = <<>> THEN <<>>
    ELSE IF Len(ss) = 1 THEN ss[1]
    ELSE join(SubSeq(ss, 1, Len(ss) - 1)) \o <<"\n">> \o ss[Len(ss)]

(***************************************************************************)
(* The URLs and lines the inputs are drawn from.                           *)
(***************************************************************************)
Https == <<"h", "t", "t", "p", "s", ":", "/", "/">>
Http == <<"h", "t", "t", "p">>
Faq == <<"f", "a", "q">>
About == <<"a", "b", "o", "u", "t">>

\* https://x.com
UrlBase == Https \o <<"x", ".", "c", "o", "m">>
\* https://x.com/faq
UrlFaq == UrlBase \o <<"/">> \o Faq
\* https://x.com/About
UrlAbout == UrlBase \o <<"/", "A", "b", "o", "u", "t">>
\* https://x.com/blog
UrlBlog == UrlBase \o <<"/", "b", "l", "o", "g">>
\* https://y.org/faq, another host
UrlForeign == Https \o <<"y", ".", "o", "r", "g", "/">> \o Faq
\* http:// , which new URL rejects
UrlInvalid == Http \o <<":", "/", "/">>
\* https://acme.test, the site a WebsiteAnalyzer analyzes
UrlAcme == Https \o <<"a", "c", "m", "e", ".", "t", "e", "s", "t">>
\* https://acme.test/faq
UrlAcmeFaq == UrlAcme \o <<"/">> \o Faq
\* https://acme.test/about
UrlAcmeAbout == UrlAcme \o <<"/">> \o About

AcmePool == {UrlAcme, UrlAcmeFaq, UrlAcmeAbout}

\* https://solo.test, a site of two pages
UrlSolo == Https \o <<"s", "o", "l", "o", ".", "t", "e", "s", "t">>
\* https://solo.test/faq
UrlSoloFaq == UrlSolo \o <<"/">> \o Faq

SoloPool == {UrlSolo, UrlSoloFaq}

\* what page.evaluate can hand back: every href that starts with 'http'
LinkPool == {UrlBase, UrlFaq, UrlAbout, UrlBlog, UrlForeign, UrlInvalid}

LinkLists == UNION {[1..n -> LinkPool] : n \in 0..MaxLinks}

\* the links a page of acme.test holds: its own pages and one of another host
AcmeLinkLists ==
    UNION {[1..n -> AcmePool \cup {UrlForeign}] : n \in 0..MaxLinks}

\* the links a page of solo.test holds: none, or its two pages
SoloLinkLists == {<<>>, <<UrlSoloFaq, UrlSolo>>}

\* the link lists the pages reached from a base URL hold
LinkListsOf(base) ==
    IF base \in AcmePool THEN AcmeLinkLists
    ELSE IF base \in SoloPool THEN SoloLinkLists ELSE LinkLists


(***************************************************************************)
(* new URL(link) (crawler.ts:38-39): whether the constructor accepts the   *)
(* string, and the hostname of an http(s) URL, lower-cased, without port.  *)
(***************************************************************************)
ParseUrl(u) ==
    LET colon == {i \in 1..Len(u) : u[i] = ":"}
    IN  IF colon = {} THEN [ok |-> FALSE, hostname |-> <<>>]
        ELSE
          LET c      == CHOOSE i \in colon : \A j \in colon : i <= j
              scheme == toLowerCase(SubSeq(u, 1, c - 1))
              \* the slashes after the scheme are skipped
              nonSl  == {i \in (c + 1)..Len(u) : u[i] # "/"}
              h0     == IF nonSl = {} THEN Len(u) + 1
                        ELSE CHOOSE i \in nonSl : \A j \in nonSl : i <= j
              stops  == {i \in h0..Len(u) : u[i] \in {"/", "?", "#", ":"}}
              h1     == IF stops = {} THEN Len(u) + 1
                        ELSE CHOOSE i \in stops : \A j \in stops : i <= j
              host   == toLowerCase(SubSeq(u, h0, h1 - 1))
          IN  [ok |-> scheme \in {Http, Http \o <<"s">>} /\ host # <<>>,
               hostname |-> host]

(***************************************************************************)
(* crawlWebsite (crawler.ts:11-59).  One action per stretch of code        *)
(* between two awaits.                                                     *)
(***************************************************************************)

\* LoopCond with the bound tested one page too late
LoopCondOffByOne == Len(urlsToVisit) > 0 /\ Len(visitedUrls) <= maxPages

\* crawler.ts:21, the while condition
LoopCond == Len(urlsToVisit) > 0 /\ Len(visitedUrls) < maxPages

\* new URL(u) for every URL of the model, computed once
ParsedUrls == [u \in LinkPool \cup AcmePool \cup SoloPool |-> ParseUrl(u)]

Parsed(u) == IF u \in DOMAIN ParsedUrls THEN ParsedUrls[u] ELSE ParseUrl(u)

\* Accepts without the test of foundUrls
AcceptsDiscovered(link, found) ==
    /\ Parsed(link).ok
    /\ Parsed(baseUrl).ok
    /\ Parsed(link).hostname = Parsed(baseUrl).hostname

\* Accepts without the test of the hostname
AcceptsAnyHost(link, found) ==
    /\ Parsed(link).ok
    /\ Parsed(baseUrl).ok
    /\ link \notin Range(found)

\* crawler.ts:38-41, whether a link is added to foundUrls and urlsToVisit: both
\* URLs parse, the hostnames are equal and the link is not yet in foundUrls
Accepts(link, found) ==
    /\ Parsed(link).ok
    /\ Parsed(baseUrl).ok
    /\ Parsed(link).hostname = Parsed(baseUrl).hostname
    /\ link \notin Range(found)

\* crawler.ts:36-48, links.forEach: the accepted links in order, each once
RECURSIVE NewLinks(_, _)
NewLinks(ls, found) ==
    IF ls = <<>> THEN <<>>
    ELSE LET before == NewLinks(SubSeq(ls, 1, Len(ls) - 1), found)
             l      == ls[Len(ls)]
         IN  IF Accepts(l, found \o before) THEN Append(before, l) ELSE before

\* the caller calls crawlWebsite(baseUrl, maxPages): crawler.ts:11-13
CallCrawl ==
    /\ pc = "idle"
    /\ \E m \in 0..MaxPagesBound : maxPages' = m
    /\ fn' = "crawlWebsite"
    /\ pc' = "launch"
    /\ UNCHANGED <<baseUrl, browser, page, urlsToVisit, foundUrls, visitedUrls,
                   currentUrl, links, enqueued, errors, result>>
    /\ UNCHANGED <<extractVars, llmVars>>
    /\ UNCHANGED <<pipelineVars, openBrowsers>>

\* puppeteer.launch resolves: crawler.ts:13
CrawlLaunchOk ==
    /\ pc = "launch" /\ fn = "crawlWebsite"
    /\ browser' = "open"
    /\ pc' = "newPage"
    /\ UNCHANGED <<fn, baseUrl, page, crawlVars, extractVars, llmVars>>
    /\ openBrowsers' = openBrowsers + 1
    /\ UNCHANGED pipelineVars

\* puppeteer.launch rejects: crawlWebsite throws, no browser exists
CrawlLaunchFail ==
    /\ pc = "launch" /\ fn = "crawlWebsite"
    /\ pc' = "thrown"
    /\ UNCHANGED <<fn, baseUrl, browser, page, crawlVars, extractVars, llmVars>>
    /\ UNCHANGED <<pipelineVars, openBrowsers>>

\* browser.newPage rejects (crawler.ts:14): the await stands before the try, so
\* crawlWebsite throws without reaching the finally block
CrawlNewPageFail ==
    /\ pc = "newPage" /\ fn = "crawlWebsite"
    /\ pc' = "thrown"
    /\ UNCHANGED <<fn, baseUrl, browser, page, crawlVars, extractVars, llmVars>>
    /\ UNCHANGED <<pipelineVars, openBrowsers>>

\* CrawlNewPageOk with foundUrls left unseeded
CrawlNewPageOkUnseeded ==
    /\ pc = "newPage" /\ fn = "crawlWebsite"
    /\ page' = "open"
    /\ urlsToVisit' = <<baseUrl>>
    /\ foundUrls' = <<>>
    /\ visitedUrls' = <<>>
    /\ enqueued' = <<baseUrl>>
    /\ pc' = "loop"
    /\ UNCHANGED <<fn, baseUrl, maxPages, browser, currentUrl, links, errors, result>>
    /\ UNCHANGED <<extractVars, llmVars>>
    /\ UNCHANGED <<pipelineVars, openBrowsers>>

\* CrawlNewPageOk with the base URL put into the frontier twice
CrawlNewPageOkSeedsTwice ==
    /\ pc = "newPage" /\ fn = "crawlWebsite"
    /\ page' = "open"
    /\ urlsToVisit' = <<baseUrl, baseUrl>>
    /\ foundUrls' = <<baseUrl>>
    /\ visitedUrls' = <<>>
    /\ enqueued' = <<baseUrl, baseUrl>>
    /\ pc' = "loop"
    /\ UNCHANGED <<fn, baseUrl, maxPages, browser, currentUrl, links, errors, result>>
    /\ UNCHANGED <<extractVars, llmVars>>
    /\ UNCHANGED <<pipelineVars, openBrowsers>>

\* browser.newPage resolves: crawler.ts:14-20
CrawlNewPageOk ==
    /\ pc = "newPage" /\ fn = "crawlWebsite"
    /\ page' = "open"
    /\ urlsToVisit' = <<baseUrl>>
    /\ foundUrls' = <<baseUrl>>
    /\ visitedUrls' = <<>>
    /\ enqueued' = <<baseUrl>>
    /\ pc' = "loop"
    /\ UNCHANGED <<fn, baseUrl, maxPages, browser, currentUrl, links, errors, result>>
    /\ UNCHANGED <<extractVars, llmVars>>
    /\ UNCHANGED <<pipelineVars, openBrowsers>>

\* LoopStep taking the newest frontier entry (pop) instead of the oldest (shift)
LoopStepLifo ==
    /\ pc = "loop" /\ LoopCond
    /\ currentUrl' = urlsToVisit[Len(urlsToVisit)]
    /\ urlsToVisit' = SubSeq(urlsToVisit, 1, Len(urlsToVisit) - 1)
    /\ IF urlsToVisit[Len(urlsToVisit)] \in Range(visitedUrls)
       THEN /\ pc' = "loop"
            /\ UNCHANGED visitedUrls
       ELSE /\ visitedUrls' = Append(visitedUrls, urlsToVisit[Len(urlsToVisit)])
            /\ pc' = "goto"
    /\ UNCHANGED <<fn, baseUrl, maxPages, browser, page, foundUrls, links,
                   enqueued, errors, result>>
    /\ UNCHANGED <<extractVars, llmVars>>
    /\ UNCHANGED <<pipelineVars, openBrowsers>>

\* crawler.ts:21-28: the loop test, the shift, the visited check, the call of goto
LoopStep ==
    /\ pc = "loop" /\ LoopCond
    /\ currentUrl' = Head(urlsToVisit)
    /\ urlsToVisit' = Tail(urlsToVisit)
    /\ IF Head(urlsToVisit) \in Range(visitedUrls)
       THEN /\ pc' = "loop"
            /\ UNCHANGED visitedUrls
       ELSE /\ visitedUrls' = Append(visitedUrls, Head(urlsToVisit))
            /\ pc' = "goto"
    /\ UNCHANGED <<fn, baseUrl, maxPages, browser, page, foundUrls, links,
                   enqueued, errors, result>>
    /\ UNCHANGED <<extractVars, llmVars>>
    /\ UNCHANGED <<pipelineVars, openBrowsers>>

\* crawler.ts:21, 54: the loop ends and the finally block calls browser.close
LoopExit ==
    /\ pc = "loop" /\ ~LoopCond
    /\ pc' = "close"
    /\ UNCHANGED <<fn, baseUrl, browser, page, crawlVars, extractVars, llmVars>>
    /\ UNCHANGED <<pipelineVars, openBrowsers>>

\* page.goto resolves: crawler.ts:28-30
CrawlGotoOk ==
    /\ pc = "goto" /\ fn = "crawlWebsite"
    /\ pc' = "evaluate"
    /\ UNCHANGED <<fn, baseUrl, browser, page, crawlVars, extractVars, llmVars>>
    /\ UNCHANGED <<pipelineVars, openBrowsers>>

\* CrawlGotoFail without the inner try/catch: the error leaves the loop
CrawlGotoFailAborts ==
    /\ pc = "goto" /\ fn = "crawlWebsite"
    /\ errors' = errors + 1
    /\ pc' = "close"
    /\ UNCHANGED <<fn, baseUrl, maxPages, browser, page, urlsToVisit, foundUrls,
                   visitedUrls, currentUrl, links, enqueued, result>>
    /\ UNCHANGED <<extractVars, llmVars>>
    /\ UNCHANGED <<pipelineVars, openBrowsers>>

\* CrawlGotoFail putting the failed URL back at the head of the frontier, unvisited
CrawlGotoFailRetries ==
    /\ pc = "goto" /\ fn = "crawlWebsite"
    /\ errors' = 1
    /\ urlsToVisit' = <<currentUrl>> \o urlsToVisit
    /\ visitedUrls' = SubSeq(visitedUrls, 1, Len(visitedUrls) - 1)
    /\ pc' = "loop"
    /\ UNCHANGED <<fn, baseUrl, maxPages, browser, page, foundUrls,
                   currentUrl, links, enqueued, result>>
    /\ UNCHANGED <<extractVars, llmVars>>
    /\ UNCHANGED <<pipelineVars, openBrowsers>>

\* page.goto rejects (timeout, DNS failure): crawler.ts:50-52, back to the loop test
CrawlGotoFail ==
    /\ pc = "goto" /\ fn = "crawlWebsite"
    /\ errors' = errors + 1
    /\ pc' = "loop"
    /\ UNCHANGED <<fn, baseUrl, maxPages, browser, page, urlsToVisit, foundUrls,
                   visitedUrls, currentUrl, links, enqueued, result>>
    /\ UNCHANGED <<extractVars, llmVars>>
    /\ UNCHANGED <<pipelineVars, openBrowsers>>

\* page.evaluate resolves with the page's links: crawler.ts:30-48
CrawlEvaluateOk ==
    /\ pc = "evaluate" /\ fn = "crawlWebsite"
    /\ \E ls \in LinkListsOf(baseUrl) :
         LET new == NewLinks(ls, foundUrls)
         IN  /\ links' = ls
             /\ foundUrls' = foundUrls \o new
             /\ urlsToVisit' = urlsToVisit \o new
             /\ enqueued' = enqueued \o new
    /\ pc' = "loop"
    /\ UNCHANGED <<fn, baseUrl, maxPages, browser, page, visitedUrls, currentUrl,
                   errors, result>>
    /\ UNCHANGED <<extractVars, llmVars>>
    /\ UNCHANGED <<pipelineVars, openBrowsers>>

\* page.evaluate rejects: crawler.ts:50-52, back to the loop test
CrawlEvaluateFail ==
    /\ pc = "evaluate" /\ fn = "crawlWebsite"
    /\ errors' = errors + 1
    /\ pc' = "loop"
    /\ UNCHANGED <<fn, baseUrl, maxPages, browser, page, urlsToVisit, foundUrls,
                   visitedUrls, currentUrl, links, enqueued, result>>
    /\ UNCHANGED <<extractVars, llmVars>>
    /\ UNCHANGED <<pipelineVars, openBrowsers>>

\* browser.close resolves and crawlWebsite returns Array.from(foundUrls): crawler.ts:55-58
CrawlClose ==
    /\ pc = "close" /\ fn = "crawlWebsite"
    /\ browser' = "closed"
    /\ page' = "none"
    /\ result' = foundUrls
    /\ pc' = "returned"
    /\ UNCHANGED <<fn, baseUrl, maxPages, urlsToVisit, foundUrls, visitedUrls,
                   currentUrl, links, enqueued, errors>>
    /\ UNCHANGED <<extractVars, llmVars>>
    /\ openBrowsers' = openBrowsers - 1
    /\ UNCHANGED pipelineVars

(***************************************************************************)
(* extractPageContent (content-extractor.ts:4-46).  A document is its      *)
(* <title>, its first <h1>, its description <meta>, and the element nodes  *)
(* of its body in document order, each with its selector and text.         *)
(***************************************************************************)
Absent == [present |-> FALSE, text |-> <<>>]

Some(t) == [present |-> TRUE, text |-> t]

Node(sel, t) == [selector |-> sel, text |-> t]

\* no document is loaded
NoDocument == [title |-> Absent, h1 |-> Absent, meta |-> Absent, body |-> <<>>]

\* content-extractor.ts:17-20
removeSelectors ==
    {"header", "nav", "footer", ".header", ".nav", ".footer", ".navigation",
     ".menu", ".sidebar", "aside", ".ads", ".advertisement"}

\* content-extractor.ts:22-24: the body without the removed elements
Cleaned(body) == SelectSeq(body, LAMBDA n : n.selector \notin removeSelectors)

\* Element.textContent of the body: the texts of its nodes, concatenated
RECURSIVE TextContent(_)
TextContent(nodes) ==
    IF nodes = <<>> THEN <<>> ELSE Head(nodes).text \o TextContent(Tail(nodes))

\* document.querySelector(sel)?.textContent: the first node with the selector
QueryText(nodes, sel) ==
    LET hits == {i \in 1..Len(nodes) : nodes[i].selector = sel}
    IN  IF hits = {} THEN Absent
        ELSE Some(nodes[CHOOSE i \in hits : \A j \in hits : i <= j].text)

\* a || b on an optional string: undefined and '' are both falsy
Truthy(o) == o.present /\ o.text # <<>>

\* String.prototype.replace(/\s+/g, ' '): every run of white space, from the
\* first one on, becomes one space
RECURSIVE CollapseSpace(_)
CollapseSpace(s) ==
    LET ws == {i \in 1..Len(s) : IsSpace(s[i])}
    IN  IF ws = {} THEN s
        ELSE LET w    == CHOOSE i \in ws : \A j \in ws : i <= j
                 rest == {i \in (w + 1)..Len(s) : ~IsSpace(s[i])}
                 e    == IF rest = {} THEN Len(s) + 1
                         ELSE CHOOSE i \in rest : \A j \in rest : i <= j
             IN  SubSeq(s, 1, w - 1) \o <<" ">> \o CollapseSpace(SubSeq(s, e, Len(s)))

\* content-extractor.ts:26-30: the first container with text, else the body
MainContent(nodes) ==
    IF Truthy(QueryText(nodes, "main")) THEN QueryText(nodes, "main").text
    ELSE IF Truthy(QueryText(nodes, "article")) THEN QueryText(nodes, "article").text
    ELSE IF Truthy(QueryText(nodes, ".content")) THEN QueryText(nodes, ".content").text
    ELSE IF Truthy(QueryText(nodes, "#content")) THEN QueryText(nodes, "#content").text
    ELSE TextContent(nodes)

\* content-extractor.ts:11-37: the function page.evaluate runs in the document
EvaluateDocument(doc) ==
    LET t  == [present |-> doc.title.present, text |-> trim(doc.title.text)]
        h  == [present |-> doc.h1.present, text |-> trim(doc.h1.text)]
    IN  [kind            |-> "content",
         title           |-> IF Truthy(t) THEN t.text
                             ELSE IF Truthy(h) THEN h.text ELSE <<>>,
         metaDescription |-> IF Truthy(doc.meta) THEN doc.meta.text ELSE <<>>,
         content         |-> trim(CollapseSpace(MainContent(Cleaned(doc.body))))]

NullContent == [kind |-> "null"]

\* the documents a navigation can load
Docs ==
    { [title |-> Some(<<" ", "T", " ">>), h1 |-> Some(<<"H">>), meta |-> Some(<<"d">>),
       body  |-> << Node("nav", <<"m", "e", "n", "u">>),
                    Node("main", <<" ", "a", " ", "\n", "b", " ">>),
                    Node("article", <<"c">>) >>],
      [title |-> Absent, h1 |-> Some(<<"H">>), meta |-> Absent,
       body  |-> << Node("main", <<>>),
                    Node("#content", <<"i", "d">>),
                    Node(".content", <<"c", "l">>) >>],
      [title |-> Some(<<" ">>), h1 |-> Absent, meta |-> Some(<<>>),
       body  |-> << Node("p", <<"x", " ">>),
                    Node("footer", <<"f">>),
                    Node("p", <<" ", "y">>) >>],
      [title |-> Absent, h1 |-> Absent, meta |-> Absent, body |-> <<>>] }

\* the lengths of a page's text: around the 100 characters a page needs to be
\* kept, 150, and around the 3000 characters a kept page is cut to
TextLens ==
    (AdmitOver - LenSlack)..(AdmitOver + LenSlack)
    \cup {150}
    \cup (CorpusCut - LenSlack)..(CorpusCut + LenSlack)

\* the documents of acme.test: a menu, and a main text of one of these lengths
\* between white space
AcmeDocs ==
    {[title |-> Some(<<"T">>), h1 |-> Absent, meta |-> Some(<<"d">>),
      body  |-> << Node("nav", <<"m">>),
                   Node("main", <<" ">> \o Cycle(<<"a", "b", "c">>, n) \o <<"\n">>) >>] :
        n \in TextLens}

\* the home page of acme.test
AcmeHome ==
    {[title |-> Some(<<"A", "c", "m", "e">>), h1 |-> Absent, meta |-> Absent,
      body  |-> << Node("p", Cycle(<<"a", "b", "c">>, 150)) >>]}

\* the documents of solo.test: a main text of 150 characters, and a short page
SoloDocs ==
    {[title |-> Some(<<"S">>), h1 |-> Absent, meta |-> Absent,
      body  |-> << Node("main", Cycle(<<"a", "b", "c">>, 150)) >>],
     [title |-> Absent, h1 |-> Some(<<"S">>), meta |-> Absent,
      body  |-> << Node("p", <<"a", "b", "c">>) >>]}

\* the documents a navigation to u can load
DocsOf(u) ==
    IF u = UrlAcme THEN AcmeHome
    ELSE IF u \in AcmePool THEN AcmeDocs
    ELSE IF u \in SoloPool THEN SoloDocs ELSE Docs

\* the URLs extractPageContent is called with
ExtractUrls == {UrlBase, UrlFaq, UrlForeign}

\* the caller calls extractPageContent(url): content-extractor.ts:4-5
CallExtract ==
    /\ pc = "idle"
    /\ \E u \in ExtractUrls : url' = u
    /\ fn' = "extractPageContent"
    /\ pc' = "launch"
    /\ UNCHANGED <<baseUrl, browser, page, content, document, crawlVars, llmVars>>
    /\ UNCHANGED <<pipelineVars, openBrowsers>>

\* puppeteer.launch resolves: content-extractor.ts:5
ExtractLaunchOk ==
    /\ pc = "launch" /\ fn = "extractPageContent"
    /\ browser' = "open"
    /\ pc' = "newPage"
    /\ UNCHANGED <<fn, baseUrl, page, crawlVars, extractVars, llmVars>>
    /\ openBrowsers' = openBrowsers + 1
    /\ UNCHANGED pipelineVars

\* puppeteer.launch rejects: extractPageContent throws, no browser exists
ExtractLaunchFail ==
    /\ pc = "launch" /\ fn = "extractPageContent"
    /\ pc' = "thrown"
    /\ UNCHANGED <<fn, baseUrl, browser, page, crawlVars, extractVars, llmVars>>
    /\ UNCHANGED <<pipelineVars, openBrowsers>>

\* browser.newPage rejects (content-extractor.ts:6): the await stands before the
\* try, so extractPageContent throws without reaching catch or finally
ExtractNewPageFail ==
    /\ pc = "newPage" /\ fn = "extractPageContent"
    /\ pc' = "thrown"
    /\ UNCHANGED <<fn, baseUrl, browser, page, crawlVars, extractVars, llmVars>>
    /\ UNCHANGED <<pipelineVars, openBrowsers>>

\* browser.newPage resolves and goto is called: content-extractor.ts:6-9
ExtractNewPageOk ==
    /\ pc = "newPage" /\ fn = "extractPageContent"
    /\ page' = "open"
    /\ pc' = "goto"
    /\ UNCHANGED <<fn, baseUrl, browser, crawlVars, extractVars, llmVars>>
    /\ UNCHANGED <<pipelineVars, openBrowsers>>

\* page.goto resolves: content-extractor.ts:9-11
ExtractGotoOk ==
    /\ pc = "goto" /\ fn = "extractPageContent"
    /\ pc' = "evaluate"
    /\ UNCHANGED <<fn, baseUrl, browser, page, crawlVars, extractVars, llmVars>>
    /\ UNCHANGED <<pipelineVars, openBrowsers>>

\* ExtractGotoFail with the rejection leaving the function
ExtractGotoFailThrows ==
    /\ pc = "goto" /\ fn = "extractPageContent"
    /\ pc' = "thrown"
    /\ UNCHANGED <<fn, baseUrl, browser, page, crawlVars, extractVars, llmVars>>
    /\ UNCHANGED <<pipelineVars, openBrowsers>>

\* page.goto rejects: content-extractor.ts:40-44, null is returned through finally
ExtractGotoFail ==
    /\ pc = "goto" /\ fn = "extractPageContent"
    /\ content' = NullContent
    /\ document' = NoDocument
    /\ pc' = "close"
    /\ UNCHANGED <<fn, baseUrl, browser, page, url, crawlVars, llmVars>>
    /\ UNCHANGED <<pipelineVars, openBrowsers>>

\* page.evaluate resolves: content-extractor.ts:11-39, then finally
ExtractEvaluateOk ==
    /\ pc = "evaluate" /\ fn = "extractPageContent"
    /\ \E doc \in DocsOf(url) :
         /\ document' = doc
         /\ content' = EvaluateDocument(doc)
    /\ pc' = "close"
    /\ UNCHANGED <<fn, baseUrl, browser, page, url, crawlVars, llmVars>>
    /\ UNCHANGED <<pipelineVars, openBrowsers>>

\* page.evaluate rejects: content-extractor.ts:40-44
ExtractEvaluateFail ==
    /\ pc = "evaluate" /\ fn = "extractPageContent"
    /\ content' = NullContent
    /\ document' = NoDocument
    /\ pc' = "close"
    /\ UNCHANGED <<fn, baseUrl, browser, page, url, crawlVars, llmVars>>
    /\ UNCHANGED <<pipelineVars, openBrowsers>>

\* browser.close resolves and extractPageContent returns: content-extractor.ts:44
ExtractClose ==
    /\ pc = "close" /\ fn = "extractPageContent"
    /\ browser' = "closed"
    /\ page' = "none"
    /\ pc' = "returned"
    /\ UNCHANGED <<fn, baseUrl, crawlVars, extractVars, llmVars>>
    /\ openBrowsers' = openBrowsers - 1
    /\ UNCHANGED pipelineVars

(***************************************************************************)
(* The browser functions: one call of crawlWebsite or extractPageContent.  *)
(***************************************************************************)
\* no fetchSitemap call is running
SitemapIdle ==
    /\ spc = "idle"
    /\ sitemapResponse = [kind |-> "none", status |-> 0]
    /\ sitemapDoc = [root |-> "none", url |-> <<>>]
    /\ sitemapUrls = [kind |-> "none", list |-> <<>>]

\* no WebsiteAnalyzer exists
AnalyzerIdle ==
    /\ apc = "idle"
    /\ apiKey = TRUE
    /\ companyName = [present |-> FALSE, text |-> <<>>]
    /\ analyzedPages = <<>>
    /\ relIndex = 0
    /\ log = <<>>
    /\ callsLeft = 0

\* no saveResults call was made
SaveIdle ==
    /\ svpc = "idle"
    /\ createBot = FALSE
    /\ sensayConfig = [present |-> FALSE]
    /\ bot = [kind |-> "none", id |-> Absent]
    /\ postResponse = [kind |-> "none", status |-> 0]
    /\ files = {}
    /\ requests = 0

SummaryIdle ==
    /\ sumpc = "idle"
    /\ summary = <<>>

LlmIdle ==
    /\ lpc = "idle"
    /\ urls = <<>>
    /\ relevantKeywords = <<>>
    /\ prompt = [website |-> <<>>, urlList |-> <<>>]
    /\ response = [kind |-> "none", content |-> <<>>]
    /\ relevantUrls = <<>>

BrowserIdle ==
    /\ pc = "idle"
    /\ fn = "none"
    /\ maxPages = 0
    /\ browser = "none"
    /\ page = "none"
    /\ urlsToVisit = <<>>
    /\ foundUrls = <<>>
    /\ visitedUrls = <<>>
    /\ currentUrl = <<>>
    /\ links = <<>>
    /\ enqueued = <<>>
    /\ errors = 0
    /\ result = <<>>
    /\ url = <<>>
    /\ content = NullContent
    /\ document = NoDocument

\* the base URLs a crawl starts from: with and without a path, another host, and
\* a string new URL rejects
CrawlBases == {UrlBase, UrlFaq, UrlForeign, UrlInvalid}

Init ==
    /\ BrowserIdle
    /\ LlmIdle
    /\ SitemapIdle
    /\ AnalyzerIdle
    /\ SummaryIdle
    /\ SaveIdle
    /\ openBrowsers = 0
    /\ baseUrl \in CrawlBases

Next ==
    \/ CallCrawl \/ CrawlLaunchOk \/ CrawlLaunchFail \/ CrawlNewPageOk
    \/ CrawlNewPageFail \/ LoopStep \/ LoopExit \/ CrawlGotoOk \/ CrawlGotoFail
    \/ CrawlEvaluateOk \/ CrawlEvaluateFail \/ CrawlClose
    \/ CallExtract \/ ExtractLaunchOk \/ ExtractLaunchFail \/ ExtractNewPageOk
    \/ ExtractNewPageFail \/ ExtractGotoOk \/ ExtractGotoFail
    \/ ExtractEvaluateOk \/ ExtractEvaluateFail \/ ExtractClose

Spec == Init /\ [][Next]_vars

\* a crawl of acme.test, whose pages link to each other, to themselves and to
\* another host, or of a base URL that new URL rejects
InitCrawlFair ==
    /\ BrowserIdle
    /\ LlmIdle
    /\ SitemapIdle
    /\ AnalyzerIdle
    /\ SummaryIdle
    /\ SaveIdle
    /\ openBrowsers = 0
    /\ baseUrl \in {UrlAcme, UrlInvalid}

\* the steps of one call of crawlWebsite
NextCrawl ==
    \/ CallCrawl \/ CrawlLaunchOk \/ CrawlLaunchFail \/ CrawlNewPageOk
    \/ CrawlNewPageFail \/ LoopStep \/ LoopExit \/ CrawlGotoOk \/ CrawlGotoFail
    \/ CrawlEvaluateOk \/ CrawlEvaluateFail \/ CrawlClose

\* One call of crawlWebsite in which every awaited promise (launch, newPage, goto,
\* evaluate, close) settles and the synchronous code between two awaits runs to its
\* end: a step of the call that can be taken is taken.
SpecCrawlFair == InitCrawlFair /\ [][NextCrawl]_vars /\ WF_vars(NextCrawl)

(***************************************************************************)
(* isRelevantUrl (crawler.ts:4-9) and analyzeWithLLM (llm-analyzer.ts:4-45)*)
(***************************************************************************)

\* DefaultKeywords without its last two entries
DefaultKeywordsShort ==
    << <<"p", "r", "o", "d", "u", "c", "t">>,
       <<"s", "e", "r", "v", "i", "c", "e", "s">>,
       <<"o", "f", "f", "e", "r">>,
       Faq,
       <<"h", "e", "l", "p">>,
       <<"s", "u", "p", "p", "o", "r", "t">>,
       <<"d", "e", "l", "i", "v", "e", "r", "y">>,
       <<"r", "e", "t", "u", "r", "n", "s">> >>

\* website-analyzer.ts:24-27, the keywords WebsiteAnalyzer passes
DefaultKeywords ==
    << <<"p", "r", "o", "d", "u", "c", "t">>,
       <<"s", "e", "r", "v", "i", "c", "e", "s">>,
       <<"o", "f", "f", "e", "r">>,
       Faq,
       <<"h", "e", "l", "p">>,
       <<"s", "u", "p", "p", "o", "r", "t">>,
       <<"d", "e", "l", "i", "v", "e", "r", "y">>,
       <<"r", "e", "t", "u", "r", "n", "s">>,
       About,
       <<"c", "o", "n", "t", "a", "c", "t">> >>

\* isRelevantUrl with the URL left in its own case
isRelevantUrlCaseSensitive(u, keywords) ==
    \E k \in 1..Len(keywords) :
        \/ includes(u, keywords[k])
        \/ includes(u, <<"/">> \o keywords[k])

\* crawler.ts:4-9
isRelevantUrl(u, keywords) ==
    LET urlLower == toLowerCase(u)
    IN  \E k \in 1..Len(keywords) :
            \/ includes(urlLower, keywords[k])
            \/ includes(urlLower, <<"/">> \o keywords[k])

\* KeywordFallback without the cap
KeywordFallbackUncapped(us, keywords) ==
    SelectSeq(us, LAMBDA u : isRelevantUrl(u, keywords))

\* llm-analyzer.ts:43, the keyword fallback
KeywordFallback(us, keywords) ==
    Take(SelectSeq(us, LAMBDA u : isRelevantUrl(u, keywords)), MaxRelevant)

\* KeepsLine with the prefix test made on the trimmed line
KeepsLineTrimmed(l) == trim(l) # <<>> /\ startsWith(trim(l), Http)

\* llm-analyzer.ts:36, the filter on a line of the model's answer
KeepsLine(l) == trim(l) # <<>> /\ startsWith(l, Http)

\* ParseContent without the cap
ParseContentUncapped(text) == SelectSeq(split(text), KeepsLine)

\* llm-analyzer.ts:34-37, for a message content that is a string
ParseContent(text) == Take(SelectSeq(split(text), KeepsLine), MaxRelevant)

\* llm-analyzer.ts:34-37: response.choices[0]?.message?.content?.split ... || []
\* for a response that has a choices array
ParseResponse(r) ==
    IF r.kind = "content" THEN ParseContent(r.content) ELSE <<>>

\* BuildPrompt with the discovered list not cut
BuildPromptUncut(us, base) == [website |-> base, urlList |-> join(us)]

\* llm-analyzer.ts:7-24: the two interpolated parts of the prompt template, whose
\* fixed text holds no URL
BuildPrompt(us, base) == [website |-> base, urlList |-> join(Take(us, PromptCap))]

\* the list lengths: around 0, around the 15-entry cap, around the 50-entry cap
ShortLens == 0..Slack
RelevantLens == (MaxRelevant - Slack)..(MaxRelevant + Slack)
PromptLens == (PromptCap - Slack)..(PromptCap + Slack)

\* the discovered-URL lists: one URL repeated, then at most one other entry
UrlPool == {UrlBase, UrlFaq, UrlAbout, UrlBlog}

UrlLists ==
    {Cycle(<<u>>, n) \o t : u \in UrlPool,
                            n \in ShortLens \cup RelevantLens \cup PromptLens,
                            t \in {<<>>} \cup {<<v>> : v \in UrlPool}}

KeywordLists == {DefaultKeywords, <<Faq, About>>}

\* the lines of a model answer: a listed URL, a URL that is on no list, an empty
\* line, a line of spaces, commentary, an indented URL
LineNew == UrlBase \o <<"/", "n", "e", "w">>
LineSpaces == <<" ", " ">>
LineText == <<"S", "u", "r", "e", ":">>
LineIndented == <<" ">> \o UrlAbout

LinePool == {UrlFaq, LineNew, <<>>, LineSpaces, LineText, LineIndented}

\* the model answers: one or two lines repeated in turn
Contents ==
    {join(Cycle(b, n)) : b \in [1..1 -> LinePool] \cup [1..2 -> LinePool],
                         n \in ShortLens \cup RelevantLens}

\* what openai.chat.completions.create resolves with: a message content, or a
\* response with no choice, a choice with no message, a message with null content,
\* or an object with no choices array at all
Responses ==
    {[kind |-> "content", content |-> c] : c \in Contents}
    \cup {[kind |-> k, content |-> <<>>] :
            k \in {"emptyChoices", "noMessage", "nullContent", "noChoicesArray"}}

\* the model answers for acme.test: its two pages in either order, commentary,
\* nothing
AcmeContents ==
    {join(ls) : ls \in {<<>>, <<UrlAcmeFaq>>, <<LineText, UrlAcmeAbout>>,
                        <<UrlAcmeFaq, UrlAcmeAbout>>, <<UrlAcmeAbout, <<>>, UrlAcmeFaq>>}}

AcmeResponses ==
    {[kind |-> "content", content |-> c] : c \in AcmeContents}
    \cup {[kind |-> k, content |-> <<>>] : k \in {"nullContent", "noChoicesArray"}}

\* what the model answers for solo.test: its faq page, or no text
SoloResponses ==
    {[kind |-> "content", content |-> UrlSoloFaq],
     [kind |-> "nullContent", content |-> <<>>]}

\* what the model call made for a base URL resolves with
ResponsesOf(base) ==
    IF base \in AcmePool THEN AcmeResponses
    ELSE IF base \in SoloPool THEN SoloResponses ELSE Responses

\* analyzeWithLLM is called and sends the prompt: llm-analyzer.ts:4-28
LlmCall ==
    /\ lpc = "idle"
    /\ prompt' = BuildPrompt(urls, baseUrl)
    /\ lpc' = "awaiting"
    /\ UNCHANGED <<urls, relevantKeywords, response, relevantUrls>>
    /\ UNCHANGED <<pc, fn, baseUrl, browser, page, crawlVars, extractVars>>
    /\ UNCHANGED <<pipelineVars, openBrowsers>>

\* the model call resolves: llm-analyzer.ts:34-40; reading choices[0] of a
\* response without a choices array throws inside the try: llm-analyzer.ts:41-43
ModelResolves ==
    /\ lpc = "awaiting"
    /\ \E r \in ResponsesOf(baseUrl) :
         /\ response' = r
         /\ relevantUrls' = IF r.kind = "noChoicesArray"
                            THEN KeywordFallback(urls, relevantKeywords)
                            ELSE ParseResponse(r)
    /\ lpc' = "done"
    /\ UNCHANGED <<urls, relevantKeywords, prompt>>
    /\ UNCHANGED <<pc, fn, baseUrl, browser, page, crawlVars, extractVars>>
    /\ UNCHANGED <<pipelineVars, openBrowsers>>

\* the model call rejects (network, rate limit): llm-analyzer.ts:41-43
ModelRejects ==
    /\ lpc = "awaiting"
    /\ response' = [kind |-> "rejected", content |-> <<>>]
    /\ relevantUrls' = KeywordFallback(urls, relevantKeywords)
    /\ lpc' = "done"
    /\ UNCHANGED <<urls, relevantKeywords, prompt>>
    /\ UNCHANGED <<pc, fn, baseUrl, browser, page, crawlVars, extractVars>>
    /\ UNCHANGED <<pipelineVars, openBrowsers>>

\* one call of analyzeWithLLM(urls, baseUrl, openai, relevantKeywords)
InitLLM ==
    /\ BrowserIdle
    /\ SitemapIdle
    /\ AnalyzerIdle
    /\ SummaryIdle
    /\ SaveIdle
    /\ openBrowsers = 0
    /\ baseUrl \in {UrlBase}
    /\ lpc = "idle"
    /\ urls \in UrlLists
    /\ relevantKeywords \in KeywordLists
    /\ prompt = [website |-> <<>>, urlList |-> <<>>]
    /\ response = [kind |-> "none", content |-> <<>>]
    /\ relevantUrls = <<>>

NextLLM == LlmCall \/ ModelResolves \/ ModelRejects

SpecLLM == InitLLM /\ [][NextLLM]_vars

(***************************************************************************)
(* fetchSitemap (sitemap.ts:4-31).  The XML body is the object xml2js      *)
(* builds from it: the root element and, for a urlset, the <url> entries   *)
(* in document order, each with the texts of its <loc> children.           *)
(***************************************************************************)
NullList == [kind |-> "null", list |-> <<>>]

SomeList(l) == [kind |-> "list", list |-> l]

\* Response.ok: the fetch settled with a status of 200 to 299
ResponseOk(r) == r.kind = "response" /\ r.status \in 200..299

\* the statuses a server answers the sitemap request with
StatusPool == {200, 404, 500}

\* SitemapLocs without the test of loc[0]
SitemapLocsUnchecked(doc) ==
    LET kept == SelectSeq(doc.url, LAMBDA e : e.loc # <<>>)
    IN  [i \in 1..Len(kept) |-> kept[i].loc[1]]

\* sitemap.ts:19-23: loc[0] of every url entry that has a loc whose first text
\* is not the empty string
SitemapLocs(doc) ==
    LET kept == SelectSeq(doc.url, LAMBDA e : e.loc # <<>> /\ e.loc[1] # <<>>)
    IN  [i \in 1..Len(kept) |-> kept[i].loc[1]]

\* sitemap.ts:17-26 for a parsed document with a root element
SitemapList(doc) == IF doc.root = "urlset" THEN SitemapLocs(doc) ELSE <<>>

\* the <url> entries of a sitemap: no loc, one loc, an empty loc, two locs
SitemapEntries ==
    {[loc |-> <<>>], [loc |-> <<UrlFaq>>], [loc |-> <<UrlAbout>>],
     [loc |-> << <<>> >>], [loc |-> <<UrlFaq, UrlBlog>>]}

\* what parseStringPromise resolves with: a urlset, a sitemap index, or null for
\* a body of white space
SitemapDocs ==
    {[root |-> "urlset", url |-> es] :
        es \in UNION {[1..n -> SitemapEntries] : n \in 0..MaxEntries}}
    \cup {[root |-> "sitemapindex", url |-> <<>>], [root |-> "null", url |-> <<>>]}

\* the sitemaps of acme.test: its two pages in either order, one of them, none,
\* an entry without a loc or with an empty one, a sitemap index, an empty body
AcmeSitemapDocs ==
    {[root |-> "urlset", url |-> es] :
        es \in {<<>>, <<[loc |-> <<UrlAcmeFaq>>]>>,
                <<[loc |-> <<UrlAcmeFaq>>], [loc |-> <<UrlAcmeAbout>>]>>,
                <<[loc |-> <<UrlAcmeAbout>>], [loc |-> <<UrlAcme>>]>>,
                <<[loc |-> <<>>]>>, <<[loc |-> << <<>> >>]>>}}
    \cup {[root |-> "sitemapindex", url |-> <<>>], [root |-> "null", url |-> <<>>]}

\* the sitemap of solo.test: its faq page
SoloSitemapDocs == {[root |-> "urlset", url |-> <<[loc |-> <<UrlSoloFaq>>]>>]}

\* what the body served under a base URL parses to
SitemapDocsOf(base) ==
    IF base \in AcmePool THEN AcmeSitemapDocs
    ELSE IF base \in SoloPool THEN SoloSitemapDocs ELSE SitemapDocs

\* fetchSitemap(baseUrl) is called: sitemap.ts:5-7; new URL throws inside the try
\* for a base URL that does not parse
SitemapCall ==
    /\ spc = "idle"
    /\ IF Parsed(baseUrl).ok
       THEN spc' = "fetching" /\ UNCHANGED sitemapUrls
       ELSE spc' = "done" /\ sitemapUrls' = NullList
    /\ UNCHANGED <<sitemapResponse, sitemapDoc>>
    /\ UNCHANGED <<pc, fn, baseUrl, browser, page, crawlVars, extractVars, llmVars>>
    /\ UNCHANGED <<analyzeVars, summaryVars, saveVars, openBrowsers>>

\* fetch resolves: sitemap.ts:7-13; a status that is not ok throws into the catch
FetchResolves ==
    /\ spc = "fetching"
    /\ \E st \in StatusPool :
         LET r == [kind |-> "response", status |-> st]
         IN  /\ sitemapResponse' = r
             /\ IF ResponseOk(r)
                THEN spc' = "reading" /\ UNCHANGED sitemapUrls
                ELSE spc' = "done" /\ sitemapUrls' = NullList
    /\ UNCHANGED sitemapDoc
    /\ UNCHANGED <<pc, fn, baseUrl, browser, page, crawlVars, extractVars, llmVars>>
    /\ UNCHANGED <<analyzeVars, summaryVars, saveVars, openBrowsers>>

\* fetch rejects (network error): sitemap.ts:27-30
FetchRejects ==
    /\ spc = "fetching"
    /\ sitemapResponse' = [kind |-> "rejected", status |-> 0]
    /\ sitemapUrls' = NullList
    /\ spc' = "done"
    /\ UNCHANGED sitemapDoc
    /\ UNCHANGED <<pc, fn, baseUrl, browser, page, crawlVars, extractVars, llmVars>>
    /\ UNCHANGED <<analyzeVars, summaryVars, saveVars, openBrowsers>>

\* response.text resolves and the parser is started: sitemap.ts:13-15
TextResolves ==
    /\ spc = "reading"
    /\ spc' = "parsing"
    /\ UNCHANGED <<sitemapResponse, sitemapDoc, sitemapUrls>>
    /\ UNCHANGED <<pc, fn, baseUrl, browser, page, crawlVars, extractVars, llmVars>>
    /\ UNCHANGED <<analyzeVars, summaryVars, saveVars, openBrowsers>>

\* response.text rejects: sitemap.ts:27-30
TextRejects ==
    /\ spc = "reading"
    /\ sitemapUrls' = NullList
    /\ spc' = "done"
    /\ UNCHANGED <<sitemapResponse, sitemapDoc>>
    /\ UNCHANGED <<pc, fn, baseUrl, browser, page, crawlVars, extractVars, llmVars>>
    /\ UNCHANGED <<analyzeVars, summaryVars, saveVars, openBrowsers>>

\* ParseResolves with null returned for a document without a URL
ParseResolvesEmptyIsNull ==
    /\ spc = "parsing"
    /\ \E d \in SitemapDocsOf(baseUrl) :
         /\ sitemapDoc' = d
         /\ sitemapUrls' = IF d.root = "null" \/ SitemapList(d) = <<>> THEN NullList
                           ELSE SomeList(SitemapList(d))
    /\ spc' = "done"
    /\ UNCHANGED sitemapResponse
    /\ UNCHANGED <<pc, fn, baseUrl, browser, page, crawlVars, extractVars, llmVars>>
    /\ UNCHANGED <<analyzeVars, summaryVars, saveVars, openBrowsers>>

\* parseStringPromise resolves: sitemap.ts:15-26; reading urlset of a null result
\* throws into the catch
ParseResolves ==
    /\ spc = "parsing"
    /\ \E d \in SitemapDocsOf(baseUrl) :
         /\ sitemapDoc' = d
         /\ sitemapUrls' = IF d.root = "null" THEN NullList
                           ELSE SomeList(SitemapList(d))
    /\ spc' = "done"
    /\ UNCHANGED sitemapResponse
    /\ UNCHANGED <<pc, fn, baseUrl, browser, page, crawlVars, extractVars, llmVars>>
    /\ UNCHANGED <<analyzeVars, summaryVars, saveVars, openBrowsers>>

\* parseStringPromise rejects (the body is not XML): sitemap.ts:27-30
ParseRejects ==
    /\ spc = "parsing"
    /\ sitemapDoc' = [root |-> "unparseable", url |-> <<>>]
    /\ sitemapUrls' = NullList
    /\ spc' = "done"
    /\ UNCHANGED sitemapResponse
    /\ UNCHANGED <<pc, fn, baseUrl, browser, page, crawlVars, extractVars, llmVars>>
    /\ UNCHANGED <<analyzeVars, summaryVars, saveVars, openBrowsers>>

\* one call of fetchSitemap(baseUrl)
InitSitemap ==
    /\ BrowserIdle
    /\ LlmIdle
    /\ SitemapIdle
    /\ AnalyzerIdle
    /\ SummaryIdle
    /\ SaveIdle
    /\ openBrowsers = 0
    /\ baseUrl \in CrawlBases

NextSitemap ==
    \/ SitemapCall \/ FetchResolves \/ FetchRejects \/ TextResolves
    \/ TextRejects \/ ParseResolves \/ ParseRejects

SpecSitemap == InitSitemap /\ [][NextSitemap]_vars

(***************************************************************************)
(* generateBusinessSummary (llm-analyzer.ts:49-85).                        *)
(***************************************************************************)
\* one entry of the call history: the start or the end of a call, the function,
\* its URL, how it ended, and the length of the content of an extraction
Entry(ev, op, u, out, n) == [ev |-> ev, op |-> op, url |-> u, out |-> out, len |-> n]

\* llm-analyzer.ts:51   'No content available for analysis.'
NoContentMessage ==
    <<"N", "o", " ", "c", "o", "n", "t", "e", "n", "t", " ", "a", "v", "a",
      "i", "l", "a", "b", "l", "e", " ", "f", "o", "r", " ", "a", "n", "a",
      "l", "y", "s", "i", "s", ".">>

\* llm-analyzer.ts:81   'Failed to generate business summary.'
FailedSummaryMessage ==
    <<"F", "a", "i", "l", "e", "d", " ", "t", "o", " ", "g", "e", "n", "e",
      "r", "a", "t", "e", " ", "b", "u", "s", "i", "n", "e", "s", "s", " ",
      "s", "u", "m", "m", "a", "r", "y", ".">>

\* llm-analyzer.ts:84   'Failed to generate business summary due to LLM error.'
LlmErrorMessage ==
    <<"F", "a", "i", "l", "e", "d", " ", "t", "o", " ", "g", "e", "n", "e",
      "r", "a", "t", "e", " ", "b", "u", "s", "i", "n", "e", "s", "s", " ",
      "s", "u", "m", "m", "a", "r", "y", " ", "d", "u", "e", " ", "t", "o",
      " ", "L", "L", "M", " ", "e", "r", "r", "o", "r", ".">>

\* IsEmptyCorpus that never holds
IsEmptyCorpusNever(pages) == FALSE

\* llm-analyzer.ts:50   analyzedPages.length === 0
IsEmptyCorpus(pages) == Len(pages) = 0

\* llm-analyzer.ts:54-56: the text of the pages that goes into the prompt, each
\* content cut to 1500 characters
RECURSIVE ContentSummary(_)
ContentSummary(pages) ==
    IF pages = <<>> THEN <<>>
    ELSE LET p    == pages[Len(pages)]
             item == <<"U", "R", "L", ":", " ">> \o p.url
                     \o <<"\n", "T", "i", "t", "l", "e", ":", " ">> \o p.title
                     \o <<"\n", "C", "o", "n", "t", "e", "n", "t", ":", " ">>
                     \o Take(p.content, SummaryCut)
         IN  IF Len(pages) = 1 THEN item
             ELSE ContentSummary(SubSeq(pages, 1, Len(pages) - 1))
                  \o <<"\n", "\n", "-", "-", "-", "\n", "\n">> \o item

\* the pages of a corpus: a short one and one longer than the 1500-character cut
SummaryPages ==
    {[url |-> UrlFaq, title |-> Faq, description |-> <<>>,
      content |-> Cycle(<<"a", "b", "c">>, n)] : n \in {3, SummaryCut + 1}}
    \cup {[url |-> UrlAbout, title |-> <<>>, description |-> About,
           content |-> Cycle(<<"x", "y">>, SummaryCut)]}

\* the corpora generateBusinessSummary is called with
Corpora == UNION {[1..n -> SummaryPages] : n \in 0..MaxCorpus}

\* what the model answers: a text, an empty text, or a response without it
SummaryResponses ==
    {[kind |-> "content", content |-> c] : c \in {<<>>, <<"#", " ", "A">>, LineText}}
    \cup {[kind |-> k, content |-> <<>>] :
            k \in {"emptyChoices", "noMessage", "nullContent", "noChoicesArray"}}

\* llm-analyzer.ts:49-79, generateBusinessSummary up to its await: an empty corpus
\* returns at once, else the prompt is sent
StartSummary ==
    IF IsEmptyCorpus(analyzedPages)
    THEN /\ summary' = NoContentMessage
         /\ sumpc' = "done"
         /\ UNCHANGED log
    ELSE /\ log' = Append(log, Entry("start", "summaryModel", <<>>, "",
                                     Len(ContentSummary(analyzedPages))))
         /\ sumpc' = "awaiting"
         /\ UNCHANGED summary

\* generateBusinessSummary is called: llm-analyzer.ts:49
SummaryCall ==
    /\ sumpc = "idle"
    /\ StartSummary
    /\ UNCHANGED <<apc, apiKey, callsLeft, companyName, analyzedPages, relIndex>>
    /\ UNCHANGED <<pc, fn, baseUrl, browser, page, crawlVars, extractVars, llmVars>>
    /\ UNCHANGED <<sitemapVars, saveVars, openBrowsers>>

\* the model call resolves: llm-analyzer.ts:81; a response without a choices
\* array throws into the catch: llm-analyzer.ts:82-84
SummaryResolves ==
    /\ sumpc = "awaiting"
    /\ \E r \in SummaryResponses :
         /\ response' = r
         /\ summary' = IF r.kind = "noChoicesArray" THEN LlmErrorMessage
                       ELSE IF r.kind = "content" /\ r.content # <<>> THEN r.content
                       ELSE FailedSummaryMessage
    /\ sumpc' = "done"
    /\ UNCHANGED <<analyzeVars, sitemapVars, saveVars, openBrowsers>>
    /\ UNCHANGED <<pc, fn, baseUrl, browser, page, crawlVars, extractVars>>
    /\ UNCHANGED <<lpc, urls, relevantKeywords, prompt, relevantUrls>>

\* the model call rejects: llm-analyzer.ts:82-84
SummaryRejects ==
    /\ sumpc = "awaiting"
    /\ response' = [kind |-> "rejected", content |-> <<>>]
    /\ summary' = LlmErrorMessage
    /\ sumpc' = "done"
    /\ UNCHANGED <<analyzeVars, sitemapVars, saveVars, openBrowsers>>
    /\ UNCHANGED <<pc, fn, baseUrl, browser, page, crawlVars, extractVars>>
    /\ UNCHANGED <<lpc, urls, relevantKeywords, prompt, relevantUrls>>

\* one call of generateBusinessSummary(analyzedPages, openai)
InitSummary ==
    /\ BrowserIdle
    /\ LlmIdle
    /\ SitemapIdle
    /\ SummaryIdle
    /\ SaveIdle
    /\ openBrowsers = 0
    /\ baseUrl \in {UrlBase}
    /\ apc = "idle"
    /\ apiKey = TRUE
    /\ companyName = Absent
    /\ analyzedPages \in Corpora
    /\ relIndex = 0
    /\ log = <<>>
    /\ callsLeft = 0

NextSummary == SummaryCall \/ SummaryResolves \/ SummaryRejects

SpecSummary == InitSummary /\ [][NextSummary]_vars

(***************************************************************************)
(* WebsiteAnalyzer (website-analyzer.ts:14-139): the constructor, analyze  *)
(* and extractCompanyName.  The functions analyze awaits run through their *)
(* own actions; an action of analyze takes what a function returned or     *)
(* threw, runs to the next await and starts the function awaited there.    *)
(***************************************************************************)
\* KeyMissing that never holds
KeyMissingNever(key) == FALSE

\* website-analyzer.ts:30   !process.env.OPENAI_API_KEY
KeyMissing(key) == ~key

\* Admits with a content of exactly 100 characters let in
AdmitsFrom(c) == c.kind = "content" /\ Len(c.content) >= AdmitOver

\* website-analyzer.ts:68   content && content.content.length > 100
Admits(c) == c.kind = "content" /\ Len(c.content) > AdmitOver

\* website-analyzer.ts:69-74, the page pushed for an extraction
AnalyzedPage(u, c) ==
    [url |-> u, title |-> c.title, description |-> c.metaDescription,
     content |-> Take(c.content, CorpusCut)]

\* file-manager.ts:36   pageCount: analyzedPages.length
PageCount(pages) == Len(pages)

\* how an extractPageContent call that returned ended, and its content length
ContentOut(c) == IF c.kind = "null" THEN "null" ELSE "content"

ContentLen(c) == IF c.kind = "null" THEN 0 ELSE Len(c.content)

\* website-analyzer.ts:125   response.choices[0]?.message?.content?.trim() || null
NameOf(r) ==
    IF r.kind = "content" /\ trim(r.content) # <<>> THEN Some(trim(r.content))
    ELSE Absent

\* what the model answers when asked for the brand name
NameResponses ==
    {[kind |-> "content", content |-> c] :
        c \in {<<"A", "c", "m", "e">>, <<" ", "A", "c", "m", "e", "\n">>, <<" ">>, <<>>}}
    \cup {[kind |-> k, content |-> <<>>] :
            k \in {"emptyChoices", "noMessage", "nullContent", "noChoicesArray"}}

\* the base URLs a WebsiteAnalyzer is constructed with
AnalyzeBases == {UrlAcme}

\* crawlWebsite or extractPageContent has returned or thrown to analyze: the
\* locals of the call are gone
DropBrowserCall ==
    /\ pc' = "idle"
    /\ fn' = "none"
    /\ maxPages' = 0
    /\ browser' = "none"
    /\ page' = "none"
    /\ urlsToVisit' = <<>>
    /\ foundUrls' = <<>>
    /\ visitedUrls' = <<>>
    /\ currentUrl' = <<>>
    /\ links' = <<>>
    /\ enqueued' = <<>>
    /\ errors' = 0
    /\ result' = <<>>
    /\ url' = <<>>
    /\ content' = NullContent
    /\ document' = NoDocument

\* fetchSitemap has returned to analyze: the locals of the call are gone
DropSitemapCall ==
    /\ spc' = "idle"
    /\ sitemapResponse' = [kind |-> "none", status |-> 0]
    /\ sitemapDoc' = [root |-> "none", url |-> <<>>]
    /\ sitemapUrls' = [kind |-> "none", list |-> <<>>]

\* new WebsiteAnalyzer(baseUrl): website-analyzer.ts:22-41
Construct ==
    /\ apc = "idle"
    /\ apc' = IF KeyMissing(apiKey) THEN "failed" ELSE "ready"
    /\ analyzedPages' = <<>>
    /\ companyName' = Absent
    /\ UNCHANGED <<baseUrl, apiKey, callsLeft, relIndex, log, openBrowsers>>
    /\ UNCHANGED <<pc, fn, browser, page, crawlVars, extractVars, llmVars>>
    /\ UNCHANGED <<sitemapVars, summaryVars, saveVars>>

\* AnalyzeCall starting every call with an empty corpus
AnalyzeCallResetsCorpus ==
    /\ apc \in {"ready", "done", "thrown"}
    /\ callsLeft > 0
    /\ callsLeft' = callsLeft - 1
    /\ apc' = "name"
    /\ analyzedPages' = <<>>
    /\ fn' = "extractPageContent"
    /\ url' = baseUrl
    /\ pc' = "launch"
    /\ relIndex' = 0
    /\ relevantUrls' = <<>>
    /\ log' = <<Entry("start", "extractPageContent", baseUrl, "", 0)>>
    /\ UNCHANGED <<baseUrl, apiKey, companyName, openBrowsers>>
    /\ UNCHANGED <<browser, page, content, document, crawlVars>>
    /\ UNCHANGED <<lpc, urls, relevantKeywords, prompt, response>>
    /\ UNCHANGED <<sitemapVars, summaryVars, saveVars>>

\* analyze is called on the instance, for the first time or again after a call
\* that returned or rejected, and awaits extractCompanyName, which awaits
\* extractPageContent(this.baseUrl): website-analyzer.ts:43-47, 99-101.  The
\* locals and the call history of an earlier call are gone; the fields of the
\* instance stay.
AnalyzeCall ==
    /\ apc \in {"ready", "done", "thrown"}
    /\ callsLeft > 0
    /\ callsLeft' = callsLeft - 1
    /\ apc' = "name"
    /\ fn' = "extractPageContent"
    /\ url' = baseUrl
    /\ pc' = "launch"
    /\ relIndex' = 0
    /\ relevantUrls' = <<>>
    /\ log' = <<Entry("start", "extractPageContent", baseUrl, "", 0)>>
    /\ UNCHANGED <<baseUrl, apiKey, companyName, analyzedPages, openBrowsers>>
    /\ UNCHANGED <<browser, page, content, document, crawlVars>>
    /\ UNCHANGED <<lpc, urls, relevantKeywords, prompt, response>>
    /\ UNCHANGED <<sitemapVars, summaryVars, saveVars>>

\* extractPageContent returned to extractCompanyName: website-analyzer.ts:101-123;
\* null ends extractCompanyName with null, a content is sent to the model
NameExtractReturns ==
    /\ apc = "name" /\ pc = "returned"
    /\ LET e == Entry("end", "extractPageContent", url, ContentOut(content),
                      ContentLen(content))
       IN  IF content.kind = "null"
           THEN /\ apc' = "callSitemap"
                /\ log' = Append(log, e)
           ELSE /\ apc' = "nameModel"
                /\ log' = log \o <<e, Entry("start", "nameModel", baseUrl, "", 0)>>
    /\ companyName' = Absent
    /\ DropBrowserCall
    /\ UNCHANGED <<baseUrl, apiKey, callsLeft, analyzedPages, relIndex, openBrowsers>>
    /\ UNCHANGED <<llmVars, sitemapVars, summaryVars, saveVars>>

\* NameExtractThrows without the try/catch of extractCompanyName: analyze rejects
NameExtractThrowsAborts ==
    /\ apc = "name" /\ pc = "thrown"
    /\ apc' = "thrown"
    /\ log' = Append(log, Entry("end", "extractPageContent", url, "thrown", 0))
    /\ companyName' = Absent
    /\ DropBrowserCall
    /\ UNCHANGED <<baseUrl, apiKey, callsLeft, analyzedPages, relIndex, openBrowsers>>
    /\ UNCHANGED <<llmVars, sitemapVars, summaryVars, saveVars>>

\* extractPageContent threw inside extractCompanyName's try:
\* website-analyzer.ts:126-129
NameExtractThrows ==
    /\ apc = "name" /\ pc = "thrown"
    /\ apc' = "callSitemap"
    /\ log' = Append(log, Entry("end", "extractPageContent", url, "thrown", 0))
    /\ companyName' = Absent
    /\ DropBrowserCall
    /\ UNCHANGED <<baseUrl, apiKey, callsLeft, analyzedPages, relIndex, openBrowsers>>
    /\ UNCHANGED <<llmVars, sitemapVars, summaryVars, saveVars>>

\* the brand-name model call resolves: website-analyzer.ts:118-125, 47; a
\* response without a choices array throws into the catch
NameModelResolves ==
    /\ apc = "nameModel"
    /\ \E r \in NameResponses :
         /\ response' = r
         /\ companyName' = IF r.kind = "noChoicesArray" THEN Absent ELSE NameOf(r)
         /\ log' = Append(log, Entry("end", "nameModel", baseUrl,
                                     IF r.kind = "noChoicesArray" THEN "thrown"
                                     ELSE "resolved", 0))
    /\ apc' = "callSitemap"
    /\ UNCHANGED <<baseUrl, apiKey, callsLeft, analyzedPages, relIndex, openBrowsers>>
    /\ UNCHANGED <<pc, fn, browser, page, crawlVars, extractVars>>
    /\ UNCHANGED <<lpc, urls, relevantKeywords, prompt, relevantUrls>>
    /\ UNCHANGED <<sitemapVars, summaryVars, saveVars>>

\* the brand-name model call rejects: website-analyzer.ts:126-129, 47
NameModelRejects ==
    /\ apc = "nameModel"
    /\ response' = [kind |-> "rejected", content |-> <<>>]
    /\ companyName' = Absent
    /\ log' = Append(log, Entry("end", "nameModel", baseUrl, "thrown", 0))
    /\ apc' = "callSitemap"
    /\ UNCHANGED <<baseUrl, apiKey, callsLeft, analyzedPages, relIndex, openBrowsers>>
    /\ UNCHANGED <<pc, fn, browser, page, crawlVars, extractVars>>
    /\ UNCHANGED <<lpc, urls, relevantKeywords, prompt, relevantUrls>>
    /\ UNCHANGED <<sitemapVars, summaryVars, saveVars>>

\* extractCompanyName has returned; analyze awaits fetchSitemap(this.baseUrl):
\* website-analyzer.ts:47-52, sitemap.ts:5-7
AnalyzeFetchSitemap ==
    /\ apc = "callSitemap"
    /\ apc' = "sitemap"
    /\ IF Parsed(baseUrl).ok
       THEN spc' = "fetching" /\ UNCHANGED sitemapUrls
       ELSE spc' = "done" /\ sitemapUrls' = NullList
    /\ log' = Append(log, Entry("start", "fetchSitemap", baseUrl, "", 0))
    /\ UNCHANGED <<sitemapResponse, sitemapDoc>>
    /\ UNCHANGED <<baseUrl, apiKey, callsLeft, companyName, analyzedPages, relIndex, openBrowsers>>
    /\ response' = [kind |-> "none", content |-> <<>>]
    /\ UNCHANGED <<pc, fn, browser, page, crawlVars, extractVars>>
    /\ UNCHANGED <<lpc, urls, relevantKeywords, prompt, relevantUrls>>
    /\ UNCHANGED <<summaryVars, saveVars>>

\* analyze awaits analyzeWithLLM(us, ...), which sends its prompt:
\* website-analyzer.ts:61, llm-analyzer.ts:4-28
StartLLM(us) ==
    /\ urls' = us
    /\ relevantKeywords' = DefaultKeywords
    /\ prompt' = BuildPrompt(us, baseUrl)
    /\ lpc' = "awaiting"
    /\ UNCHANGED <<response, relevantUrls>>

\* NeedsCrawl with an empty list taken for no list
NeedsCrawlWhenEmpty(r) == r.kind = "null" \/ r.list = <<>>

\* website-analyzer.ts:54   !urls : null is falsy, every array is truthy
NeedsCrawl(r) == r.kind = "null"

\* fetchSitemap returned null: analyze awaits crawlWebsite(this.baseUrl), with the
\* default maxPages: website-analyzer.ts:52-56
SitemapReturnsNull ==
    /\ apc = "sitemap" /\ spc = "done"
    /\ NeedsCrawl(sitemapUrls)
    /\ apc' = "crawl"
    /\ fn' = "crawlWebsite"
    /\ maxPages' = DefaultMaxPages
    /\ pc' = "launch"
    /\ log' = log \o <<Entry("end", "fetchSitemap", baseUrl, sitemapUrls.kind, 0),
                       Entry("start", "crawlWebsite", baseUrl, "", 0)>>
    /\ DropSitemapCall
    /\ UNCHANGED <<baseUrl, apiKey, callsLeft, companyName, analyzedPages, relIndex, openBrowsers>>
    /\ UNCHANGED <<browser, page, urlsToVisit, foundUrls, visitedUrls, currentUrl,
                   links, enqueued, errors, result>>
    /\ UNCHANGED <<extractVars, llmVars, summaryVars, saveVars>>

\* fetchSitemap returned a list: no crawl, analyze awaits analyzeWithLLM:
\* website-analyzer.ts:52-61
SitemapReturnsList ==
    /\ apc = "sitemap" /\ spc = "done"
    /\ ~NeedsCrawl(sitemapUrls)
    /\ apc' = "llm"
    /\ StartLLM(sitemapUrls.list)
    /\ log' = log \o <<Entry("end", "fetchSitemap", baseUrl, "list", 0),
                       Entry("start", "analyzeWithLLM", baseUrl, "", 0)>>
    /\ DropSitemapCall
    /\ UNCHANGED <<baseUrl, apiKey, callsLeft, companyName, analyzedPages, relIndex, openBrowsers>>
    /\ UNCHANGED <<pc, fn, browser, page, crawlVars, extractVars>>
    /\ UNCHANGED <<summaryVars, saveVars>>

\* crawlWebsite returned: analyze awaits analyzeWithLLM: website-analyzer.ts:56-61
CrawlReturns ==
    /\ apc = "crawl" /\ pc = "returned"
    /\ apc' = "llm"
    /\ StartLLM(result)
    /\ log' = log \o <<Entry("end", "crawlWebsite", baseUrl, "list", 0),
                       Entry("start", "analyzeWithLLM", baseUrl, "", 0)>>
    /\ DropBrowserCall
    /\ UNCHANGED <<baseUrl, apiKey, callsLeft, companyName, analyzedPages, relIndex, openBrowsers>>
    /\ UNCHANGED <<sitemapVars, summaryVars, saveVars>>

\* crawlWebsite threw: analyze has no handler and rejects: website-analyzer.ts:56
CrawlThrows ==
    /\ apc = "crawl" /\ pc = "thrown"
    /\ apc' = "thrown"
    /\ log' = Append(log, Entry("end", "crawlWebsite", baseUrl, "thrown", 0))
    /\ DropBrowserCall
    /\ UNCHANGED <<baseUrl, apiKey, callsLeft, companyName, analyzedPages, relIndex, openBrowsers>>
    /\ UNCHANGED <<llmVars, sitemapVars, summaryVars, saveVars>>

\* analyzeWithLLM returned: the for loop starts: website-analyzer.ts:61-64
LlmReturns ==
    /\ apc = "llm" /\ lpc = "done"
    /\ apc' = "loop"
    /\ relIndex' = 0
    /\ log' = Append(log, Entry("end", "analyzeWithLLM", baseUrl,
                                IF relevantUrls = ParseResponse(response)
                                   /\ response.kind \notin {"rejected", "noChoicesArray"}
                                THEN "parsed" ELSE "fallback", 0))
    /\ lpc' = "idle"
    /\ urls' = <<>>
    /\ relevantKeywords' = <<>>
    /\ prompt' = [website |-> <<>>, urlList |-> <<>>]
    /\ response' = [kind |-> "none", content |-> <<>>]
    /\ UNCHANGED <<baseUrl, apiKey, callsLeft, companyName, analyzedPages, relevantUrls,
                   openBrowsers>>
    /\ UNCHANGED <<pc, fn, browser, page, crawlVars, extractVars>>
    /\ UNCHANGED <<sitemapVars, summaryVars, saveVars>>

\* the for loop takes the next relevant URL and awaits extractPageContent(url):
\* website-analyzer.ts:64-66
LoopNext ==
    /\ apc = "loop"
    /\ relIndex < Len(relevantUrls)
    /\ relIndex' = relIndex + 1
    /\ apc' = "extract"
    /\ fn' = "extractPageContent"
    /\ url' = relevantUrls[relIndex + 1]
    /\ pc' = "launch"
    /\ log' = Append(log, Entry("start", "extractPageContent",
                                relevantUrls[relIndex + 1], "", 0))
    /\ UNCHANGED <<baseUrl, apiKey, callsLeft, companyName, analyzedPages, openBrowsers>>
    /\ UNCHANGED <<browser, page, content, document, crawlVars, llmVars>>
    /\ UNCHANGED <<sitemapVars, summaryVars, saveVars>>

\* the for loop is through: analyze returns this.analyzedPages:
\* website-analyzer.ts:64, 80
LoopDone ==
    /\ apc = "loop"
    /\ relIndex >= Len(relevantUrls)
    /\ apc' = "done"
    /\ UNCHANGED <<baseUrl, apiKey, callsLeft, companyName, analyzedPages, relIndex, log,
                   openBrowsers>>
    /\ UNCHANGED <<pc, fn, browser, page, crawlVars, extractVars, llmVars>>
    /\ UNCHANGED <<sitemapVars, summaryVars, saveVars>>

\* website-analyzer.ts:77   setTimeout(resolve, 1000)
DelayMs == 1000

\* ExtractReturns with the timer started only after a page that was pushed
ExtractReturnsDelaysAdmitted ==
    /\ apc = "extract" /\ pc = "returned"
    /\ IF Admits(content)
       THEN /\ analyzedPages' = Append(analyzedPages, AnalyzedPage(url, content))
            /\ apc' = "delay"
            /\ log' = log \o <<Entry("end", "extractPageContent", url,
                                     ContentOut(content), ContentLen(content)),
                               Entry("start", "delay", url, "", DelayMs)>>
       ELSE /\ analyzedPages' = analyzedPages
            /\ apc' = "loop"
            /\ log' = Append(log, Entry("end", "extractPageContent", url,
                                        ContentOut(content), ContentLen(content)))
    /\ DropBrowserCall
    /\ UNCHANGED <<baseUrl, apiKey, callsLeft, companyName, relIndex, openBrowsers>>
    /\ UNCHANGED <<llmVars, sitemapVars, summaryVars, saveVars>>

\* extractPageContent returned in the loop: the page is pushed if it is long
\* enough, and the one-second timer is started: website-analyzer.ts:66-77
ExtractReturns ==
    /\ apc = "extract" /\ pc = "returned"
    /\ analyzedPages' = IF Admits(content)
                        THEN Append(analyzedPages, AnalyzedPage(url, content))
                        ELSE analyzedPages
    /\ apc' = "delay"
    /\ log' = log \o <<Entry("end", "extractPageContent", url, ContentOut(content),
                             ContentLen(content)),
                       Entry("start", "delay", url, "", DelayMs)>>
    /\ DropBrowserCall
    /\ UNCHANGED <<baseUrl, apiKey, callsLeft, companyName, relIndex, openBrowsers>>
    /\ UNCHANGED <<llmVars, sitemapVars, summaryVars, saveVars>>

\* extractPageContent threw in the loop: analyze has no handler and rejects:
\* website-analyzer.ts:66
ExtractThrows ==
    /\ apc = "extract" /\ pc = "thrown"
    /\ apc' = "thrown"
    /\ log' = Append(log, Entry("end", "extractPageContent", url, "thrown", 0))
    /\ DropBrowserCall
    /\ UNCHANGED <<baseUrl, apiKey, callsLeft, companyName, analyzedPages, relIndex, openBrowsers>>
    /\ UNCHANGED <<llmVars, sitemapVars, summaryVars, saveVars>>

\* the timer fires: website-analyzer.ts:77-78
DelayElapses ==
    /\ apc = "delay"
    /\ apc' = "loop"
    /\ log' = Append(log, Entry("end", "delay", relevantUrls[relIndex], "", DelayMs))
    /\ UNCHANGED <<baseUrl, apiKey, callsLeft, companyName, analyzedPages, relIndex, openBrowsers>>
    /\ UNCHANGED <<pc, fn, browser, page, crawlVars, extractVars, llmVars>>
    /\ UNCHANGED <<sitemapVars, summaryVars, saveVars>>

\* one WebsiteAnalyzer: its construction and one analyze call
InitAnalyze ==
    /\ BrowserIdle
    /\ LlmIdle
    /\ SitemapIdle
    /\ SummaryIdle
    /\ SaveIdle
    /\ openBrowsers = 0
    /\ baseUrl \in AnalyzeBases
    /\ apc = "idle"
    /\ apiKey \in BOOLEAN
    /\ companyName = Absent
    /\ analyzedPages = <<>>
    /\ relIndex = 0
    /\ log = <<>>
    /\ callsLeft = 1

NextAnalyze ==
    \/ Construct \/ AnalyzeCall \/ NameExtractReturns \/ NameExtractThrows
    \/ NameModelResolves \/ NameModelRejects \/ AnalyzeFetchSitemap
    \/ SitemapReturnsNull \/ SitemapReturnsList \/ CrawlReturns \/ CrawlThrows
    \/ LlmReturns \/ LoopNext \/ LoopDone \/ ExtractReturns \/ ExtractThrows
    \/ DelayElapses
    \/ ExtractLaunchOk \/ ExtractLaunchFail \/ ExtractNewPageOk
    \/ ExtractNewPageFail \/ ExtractGotoOk \/ ExtractGotoFail
    \/ ExtractEvaluateOk \/ ExtractEvaluateFail \/ ExtractClose
    \/ FetchResolves \/ FetchRejects \/ TextResolves \/ TextRejects
    \/ ParseResolves \/ ParseRejects
    \/ CrawlLaunchOk \/ CrawlLaunchFail \/ CrawlNewPageOk \/ CrawlNewPageFail
    \/ LoopStep \/ LoopExit \/ CrawlGotoOk \/ CrawlGotoFail
    \/ CrawlEvaluateOk \/ CrawlEvaluateFail \/ CrawlClose
    \/ ModelResolves \/ ModelRejects

SpecAnalyze == InitAnalyze /\ [][NextAnalyze]_vars

\* the most analyze calls a caller makes on one instance
MaxCalls == 2

\* one WebsiteAnalyzer for solo.test, and up to MaxCalls analyze calls on it, one
\* after the other
InitReanalyze ==
    /\ BrowserIdle
    /\ LlmIdle
    /\ SitemapIdle
    /\ SummaryIdle
    /\ SaveIdle
    /\ openBrowsers = 0
    /\ baseUrl \in {UrlSolo}
    /\ apc = "idle"
    /\ apiKey \in BOOLEAN
    /\ companyName = Absent
    /\ analyzedPages = <<>>
    /\ relIndex = 0
    /\ log = <<>>
    /\ callsLeft \in 1..MaxCalls

SpecReanalyze == InitReanalyze /\ [][NextAnalyze]_vars

(***************************************************************************)
(* saveResults (file-manager.ts:9-63) and createSensayBot                  *)
(* (bot-creator.ts:8-104).  The file system and the Sensay API settle each *)
(* awaited call either way.                                                *)
(***************************************************************************)
\* the variables initializeSensayConfig reads: sensay-config.ts:7
SensayEnvNames ==
    {"SENSAY_API_KEY", "SENSAY_API_URL", "SENSAY_ORGANIZATION_ID", "SENSAY_USER_ID"}

\* sensay-config.ts:6-19: a configuration when all four variables are set, else
\* null; env is the set of the variables that are set and not empty
initializeSensayConfig(env) == [present |-> SensayEnvNames \subseteq env]

\* BotRequested without the test of the configuration
BotRequestedAnyConfig(cb, cfg) == cb

\* file-manager.ts:48   createBot && sensayConfig
BotRequested(cb, cfg) == cb /\ cfg.present

\* what createSensayBot returns: null, or a bot with the uuid of the response
NullBot == [kind |-> "null", id |-> Absent]

SensayBot(id) == [kind |-> "bot", id |-> id]

\* file-manager.ts:27, 31, 52 and system-message.ts:41, the files written
KnowledgeBaseFile == "knowledge-base.md"

RawDataFile == "raw-data.json"

BotInfoFile == "sensay-bot.json"

SystemMessageFile == "system-message.txt"

\* the statuses axios.post resolves with, and those it rejects with
PostOkStatuses == {200, 201}

PostErrorStatuses == {400, 401, 403, 500}

\* the response.data.uuid of a created replica: an id, or undefined
ReplicaIds == {Some(<<"u", "1">>), Absent}

\* saveResults is called and awaits generateMarkdown, which awaits
\* generateBusinessSummary: file-manager.ts:9-18, markdown-generator.ts:5-7
SaveCall ==
    /\ svpc = "idle" /\ sumpc = "idle"
    /\ svpc' = "markdown"
    /\ StartSummary
    /\ UNCHANGED <<createBot, sensayConfig, bot, postResponse, files, requests>>
    /\ UNCHANGED <<apc, apiKey, callsLeft, companyName, analyzedPages, relIndex>>
    /\ UNCHANGED <<pc, fn, baseUrl, browser, page, crawlVars, extractVars, llmVars>>
    /\ UNCHANGED <<sitemapVars, openBrowsers>>

\* generateMarkdown returns the document; saveResults awaits the first mkdir:
\* markdown-generator.ts:9-25, file-manager.ts:18-24
MarkdownReturns ==
    /\ svpc = "markdown" /\ sumpc = "done"
    /\ svpc' = "mkdirAnalysis"
    /\ UNCHANGED <<createBot, sensayConfig, bot, postResponse, files, requests>>
    /\ UNCHANGED <<pc, fn, baseUrl, browser, page, crawlVars, extractVars, llmVars>>
    /\ UNCHANGED <<sitemapVars, analyzeVars, summaryVars, openBrowsers>>

\* fs.mkdir resolves: file-manager.ts:24-29
MkdirResolves ==
    /\ svpc \in {"mkdirAnalysis", "mkdirCompany"}
    /\ svpc' = IF svpc = "mkdirAnalysis" THEN "mkdirCompany" ELSE "writeKnowledgeBase"
    /\ UNCHANGED <<createBot, sensayConfig, bot, postResponse, files, requests>>
    /\ UNCHANGED <<pc, fn, baseUrl, browser, page, crawlVars, extractVars, llmVars>>
    /\ UNCHANGED <<sitemapVars, analyzeVars, summaryVars, openBrowsers>>

\* fs.mkdir rejects: saveResults has no handler and rejects: file-manager.ts:24-25
MkdirRejects ==
    /\ svpc \in {"mkdirAnalysis", "mkdirCompany"}
    /\ svpc' = "thrown"
    /\ UNCHANGED <<createBot, sensayConfig, bot, postResponse, files, requests>>
    /\ UNCHANGED <<pc, fn, baseUrl, browser, page, crawlVars, extractVars, llmVars>>
    /\ UNCHANGED <<sitemapVars, analyzeVars, summaryVars, openBrowsers>>

\* fs.writeFile resolves for the knowledge base, the raw data or the bot
\* descriptor: file-manager.ts:29, 39, 54
WriteResolves ==
    /\ svpc \in {"writeKnowledgeBase", "writeRawData", "writeBot"}
    /\ files' = files \cup {IF svpc = "writeKnowledgeBase" THEN KnowledgeBaseFile
                            ELSE IF svpc = "writeRawData" THEN RawDataFile
                            ELSE BotInfoFile}
    /\ svpc' = IF svpc = "writeKnowledgeBase" THEN "writeRawData"
               ELSE IF svpc = "writeRawData" THEN "training"
               ELSE "done"
    /\ UNCHANGED <<createBot, sensayConfig, bot, postResponse, requests>>
    /\ UNCHANGED <<pc, fn, baseUrl, browser, page, crawlVars, extractVars, llmVars>>
    /\ UNCHANGED <<sitemapVars, analyzeVars, summaryVars, openBrowsers>>

\* fs.writeFile rejects: saveResults has no handler and rejects
WriteRejects ==
    /\ svpc \in {"writeKnowledgeBase", "writeRawData", "writeBot"}
    /\ svpc' = "thrown"
    /\ UNCHANGED <<createBot, sensayConfig, bot, postResponse, files, requests>>
    /\ UNCHANGED <<pc, fn, baseUrl, browser, page, crawlVars, extractVars, llmVars>>
    /\ UNCHANGED <<sitemapVars, analyzeVars, summaryVars, openBrowsers>>

\* createSensayTrainingData resolves (system-message.ts:25-59); saveResults goes
\* into one of the three branches, and in the first one calls createSensayBot,
\* which awaits loadKnowledgeBase: file-manager.ts:42-50, bot-creator.ts:16-18
TrainingResolves ==
    /\ svpc = "training"
    /\ files' = files \cup {SystemMessageFile}
    /\ svpc' = IF BotRequested(createBot, sensayConfig) THEN "loadKnowledgeBase"
               ELSE "done"
    /\ UNCHANGED <<createBot, sensayConfig, bot, postResponse, requests>>
    /\ UNCHANGED <<pc, fn, baseUrl, browser, page, crawlVars, extractVars, llmVars>>
    /\ UNCHANGED <<sitemapVars, analyzeVars, summaryVars, openBrowsers>>

\* createSensayTrainingData rejects (a mkdir or writeFile fails, or the knowledge
\* base cannot be read): saveResults rejects: file-manager.ts:42
TrainingRejects ==
    /\ svpc = "training"
    /\ svpc' = "thrown"
    /\ UNCHANGED <<createBot, sensayConfig, bot, postResponse, files, requests>>
    /\ UNCHANGED <<pc, fn, baseUrl, browser, page, crawlVars, extractVars, llmVars>>
    /\ UNCHANGED <<sitemapVars, analyzeVars, summaryVars, openBrowsers>>

\* loadKnowledgeBase returns the text: createSensayBot builds the payload and sends
\* the request: bot-creator.ts:18-71
KnowledgeBaseLoaded ==
    /\ svpc = "loadKnowledgeBase"
    /\ requests' = requests + 1
    /\ svpc' = "post"
    /\ UNCHANGED <<createBot, sensayConfig, bot, postResponse, files>>
    /\ UNCHANGED <<pc, fn, baseUrl, browser, page, crawlVars, extractVars, llmVars>>
    /\ UNCHANGED <<sitemapVars, analyzeVars, summaryVars, openBrowsers>>

\* loadKnowledgeBase returns null (analysis-loader.ts:33-36): createSensayBot
\* returns null and saveResults ends: bot-creator.ts:20-24, file-manager.ts:56-58
KnowledgeBaseMissing ==
    /\ svpc = "loadKnowledgeBase"
    /\ bot' = NullBot
    /\ svpc' = "done"
    /\ UNCHANGED <<createBot, sensayConfig, postResponse, files, requests>>
    /\ UNCHANGED <<pc, fn, baseUrl, browser, page, crawlVars, extractVars, llmVars>>
    /\ UNCHANGED <<sitemapVars, analyzeVars, summaryVars, openBrowsers>>

\* axios.post resolves: createSensayBot returns the bot and saveResults awaits the
\* write of the descriptor: bot-creator.ts:60-82, file-manager.ts:50-54
PostResolves ==
    /\ svpc = "post"
    /\ \E st \in PostOkStatuses : postResponse' = [kind |-> "response", status |-> st]
    /\ \E id \in ReplicaIds : bot' = SensayBot(id)
    /\ svpc' = "writeBot"
    /\ UNCHANGED <<createBot, sensayConfig, files, requests>>
    /\ UNCHANGED <<pc, fn, baseUrl, browser, page, crawlVars, extractVars, llmVars>>
    /\ UNCHANGED <<sitemapVars, analyzeVars, summaryVars, openBrowsers>>

\* axios.post rejects, with an error status or without a response: the catch
\* returns null and saveResults ends: bot-creator.ts:83-103, file-manager.ts:56-58
PostRejects ==
    /\ svpc = "post"
    /\ \/ \E st \in PostErrorStatuses :
            postResponse' = [kind |-> "response", status |-> st]
       \/ postResponse' = [kind |-> "rejected", status |-> 0]
    /\ bot' = NullBot
    /\ svpc' = "done"
    /\ UNCHANGED <<createBot, sensayConfig, files, requests>>
    /\ UNCHANGED <<pc, fn, baseUrl, browser, page, crawlVars, extractVars, llmVars>>
    /\ UNCHANGED <<sitemapVars, analyzeVars, summaryVars, openBrowsers>>

\* one call of saveResults(companyName, baseUrl, analyzedPages, openai,
\* sensayConfig, createBot)
InitSave ==
    /\ BrowserIdle
    /\ LlmIdle
    /\ SitemapIdle
    /\ SummaryIdle
    /\ openBrowsers = 0
    /\ baseUrl \in {UrlBase}
    /\ apc = "idle"
    /\ apiKey = TRUE
    /\ callsLeft = 0
    /\ companyName = Absent
    /\ analyzedPages \in Corpora
    /\ relIndex = 0
    /\ log = <<>>
    /\ svpc = "idle"
    /\ createBot \in BOOLEAN
    /\ sensayConfig \in {initializeSensayConfig(env) : env \in SUBSET SensayEnvNames}
    /\ bot = [kind |-> "none", id |-> Absent]
    /\ postResponse = [kind |-> "none", status |-> 0]
    /\ files = {}
    /\ requests = 0

NextSave ==
    \/ SaveCall \/ SummaryResolves \/ SummaryRejects \/ MarkdownReturns
    \/ MkdirResolves \/ MkdirRejects \/ WriteResolves \/ WriteRejects
    \/ TrainingResolves \/ TrainingRejects
    \/ KnowledgeBaseLoaded \/ KnowledgeBaseMissing \/ PostResolves \/ PostRejects

SpecSave == InitSave /\ [][NextSave]_vars

(***************************************************************************)
(* Properties of crawlWebsite and extractPageContent, checked under Spec.  *)
(***************************************************************************)

\* C1: one crawlWebsite call marks at most maxPages distinct URLs as visited,
\* whether the page loads succeed or fail.
C1_VisitedAtMostMaxPages == Cardinality(Range(visitedUrls)) <= maxPages

\* a crawl that stopped at the bound with the frontier not empty, after a failed load
C1_Witness ==
    /\ pc = "returned" /\ fn = "crawlWebsite"
    /\ maxPages >= 2
    /\ Cardinality(Range(visitedUrls)) = maxPages
    /\ urlsToVisit # <<>>
    /\ errors >= 1

\* C2: no URL is put into urlsToVisit more than once during a call, so the
\* frontier never holds duplicates; and a URL is put into it only if it is not
\* yet in foundUrls.
C2_NoUrlEnqueuedTwice ==
    /\ [](NoDup(enqueued) /\ NoDup(urlsToVisit))
    /\ [][\A i \in (Len(enqueued) + 1)..Len(enqueued') :
              enqueued'[i] \notin Range(foundUrls)]_vars

\* a page that held twice a link already found on an earlier page
C2_Witness ==
    /\ pc = "loop"
    /\ Len(links) = 2 /\ links[1] = links[2]
    /\ links[1] # baseUrl
    /\ links[1] \in Range(visitedUrls)
    /\ Len(enqueued) >= 2

\* C3: the visited URLs and the URLs of the frontier are all discovered URLs.
C3_VisitedAndFrontierDiscovered ==
    /\ Range(visitedUrls) \subseteq Range(foundUrls)
    /\ Range(urlsToVisit) \subseteq Range(foundUrls)

\* a crawl with two visited pages and a frontier that is not empty
C3_Witness ==
    /\ Len(visitedUrls) >= 2
    /\ urlsToVisit # <<>>

\* C4: when crawlWebsite or extractPageContent has returned or thrown, the browser
\* it launched is closed.
C4_BrowserClosedOnExit == pc \in {"returned", "thrown"} => browser # "open"

\* C5: a navigation or link-collection error leaves the failed URL visited, leaves
\* the discovered set and the frontier as they were, and goes back to the loop test;
\* a step from the loop test with work left takes the next frontier entry; and
\* crawlWebsite never throws once a page was visited.
C5_PageErrorNeverAborts ==
    /\ [](pc = "thrown" => (errors = 0 /\ visitedUrls = <<>>))
    /\ [][errors' # errors =>
            /\ currentUrl \in Range(visitedUrls)
            /\ visitedUrls' = visitedUrls
            /\ foundUrls' = foundUrls
            /\ urlsToVisit' = urlsToVisit
            /\ pc' = "loop"]_vars
    /\ [][(pc = "loop" /\ LoopCond) =>
            /\ pc' \in {"goto", "loop"}
            /\ currentUrl' = Head(urlsToVisit)
            /\ urlsToVisit' = Tail(urlsToVisit)]_vars

\* the third page is being loaded after the load of an earlier page failed
C5_Witness ==
    /\ pc = "goto" /\ fn = "crawlWebsite"
    /\ errors >= 1
    /\ Len(visitedUrls) = 3


(***************************************************************************)
(* Properties of analyzeWithLLM, checked under SpecLLM.                    *)
(***************************************************************************)

\* C6: when the model call fails, a malformed response included (no choices, or a
\* missing or null message content), analyzeWithLLM returns the keyword fallback
\* computed from the full discovered list.
C6_FallbackOnEveryFailure ==
    (lpc = "done" /\ response.kind # "content")
        => relevantUrls = KeywordFallback(urls, relevantKeywords)

\* C7: every URL analyzeWithLLM returns is a member of the discovered list.
C7_ReturnsOnlyDiscovered ==
    lpc = "done" => Range(relevantUrls) \subseteq Range(urls)

\* C8: the list analyzeWithLLM returns holds no URL twice.
C8_ReturnsNoDuplicates == lpc = "done" => NoDup(relevantUrls)

\* C9: the list analyzeWithLLM returns has at most 15 elements.
C9_AtMostFifteen == Len(relevantUrls) <= MaxRelevant

\* a model answer with more than 15 lines that pass the filter, cut to 15
C9_Witness ==
    /\ lpc = "done"
    /\ response.kind = "content"
    /\ Len(SelectSeq(split(response.content), KeepsLine)) > MaxRelevant
    /\ Len(relevantUrls) = MaxRelevant

\* the URLs listed in the prompt, one per line
PromptUrls == SelectSeq(split(prompt.urlList), LAMBDA l : l # <<>>)

\* whether the text u occurs in the prompt
AppearsInPrompt(u) == includes(prompt.website, u) \/ includes(prompt.urlList, u)

\* C10 as stated: the prompt lists exactly the first min(50, length) URLs in their
\* order, and a URL at position 51 or later never appears in the prompt.
C10_LaterUrlNeverAppears ==
    lpc = "awaiting" =>
        /\ PromptUrls = Take(urls, PromptCap)
        /\ \A i \in (PromptCap + 1)..Len(urls) : ~AppearsInPrompt(urls[i])

\* C10, amended: the prompt lists exactly the first min(50, length) URLs in their
\* order, and a URL at position 51 or later appears in the prompt only where it is
\* part of the base URL or of one of the first 50 URLs.
C10_PromptListsFirstFifty ==
    lpc = "awaiting" =>
        /\ PromptUrls = Take(urls, PromptCap)
        /\ \A i \in (PromptCap + 1)..Len(urls) :
              AppearsInPrompt(urls[i]) =>
                  \/ includes(baseUrl, urls[i])
                  \/ \E j \in 1..PromptCap : includes(urls[j], urls[i])

\* a list of 51 URLs whose last one occurs nowhere else, and not in the prompt
C10_Witness ==
    /\ lpc = "awaiting"
    /\ Len(urls) = PromptCap + 1
    /\ \A j \in 1..PromptCap : urls[j] # urls[PromptCap + 1]
    /\ ~AppearsInPrompt(urls[PromptCap + 1])
    /\ Len(PromptUrls) = PromptCap

\* the k-th smallest member of a set of positions
Kth(S, k) == CHOOSE i \in S : Cardinality({j \in S : j < i}) = k - 1

\* the entries of s at the first n positions of S, in ascending position order
FirstAt(s, S, n) == [k \in 1..Min(n, Cardinality(S)) |-> s[Kth(S, k)]]

\* whether u holds one of the keywords, letter case ignored
MatchesKeyword(u, keywords) ==
    \E k \in 1..Len(keywords) :
        includes(toLowerCase(u), toLowerCase(keywords[k]))

\* C13: when the model call fails, analyzeWithLLM returns the first 15, in list
\* order, of the URLs of the whole discovered list that hold a keyword, letter
\* case ignored; keywords [faq, about] and URLs [https://x.com/faq,
\* https://x.com/blog] give [https://x.com/faq].
C13_FallbackIsFirstFifteenMatches ==
    (lpc = "done" /\ response.kind \in {"rejected", "noChoicesArray"}) =>
        /\ relevantUrls =
              FirstAt(urls,
                      {i \in 1..Len(urls) : MatchesKeyword(urls[i], relevantKeywords)},
                      MaxRelevant)
        /\ (urls = <<UrlFaq, UrlBlog>> /\ relevantKeywords = <<Faq, About>>)
              => relevantUrls = <<UrlFaq>>

\* the model call rejected for a list of more than 50 URLs that ends in a URL
\* matching in another letter case, the only match of the list
C13_Witness ==
    /\ lpc = "done"
    /\ response.kind = "rejected"
    /\ Len(urls) = PromptCap + 1
    /\ urls[1] = UrlBlog
    /\ urls[PromptCap + 1] = UrlAbout
    /\ relevantUrls = <<UrlAbout>>

\* C20: when the model call succeeds with a text answer, analyzeWithLLM returns,
\* in answer order, the first 15 of the answer's lines that are not empty and
\* begin with "http"; every other line is dropped.
C20_ParsedIsFirstFifteenHttpLines ==
    (lpc = "done" /\ response.kind = "content") =>
        LET lines == split(response.content)
        IN  relevantUrls =
              FirstAt(lines,
                      {i \in 1..Len(lines) :
                          lines[i] # <<>> /\ startsWith(lines[i], Http)},
                      MaxRelevant)

\* an answer of more than 15 lines, every second one an indented URL, which is
\* dropped
C20_Witness ==
    /\ lpc = "done"
    /\ response.kind = "content"
    /\ Len(split(response.content)) > MaxRelevant
    /\ split(response.content)[1] = UrlFaq
    /\ split(response.content)[2] = LineIndented
    /\ Len(relevantUrls) >= MaxRelevant \div 2
    /\ Range(relevantUrls) = {UrlFaq}

(***************************************************************************)
(* Properties of fetchSitemap, checked under SpecSitemap.                  *)
(***************************************************************************)

\* every <loc> text of a urlset, in document order
RECURSIVE AllLocs(_)
AllLocs(es) == IF es = <<>> THEN <<>> ELSE Head(es).loc \o AllLocs(Tail(es))

\* C11 as stated: for a response with a successful status whose urlset holds N
\* <loc> entries, fetchSitemap returns exactly these N URLs in document order;
\* for a status that is not successful it returns null.
C11_EveryLocReturned ==
    spc = "done" =>
        /\ (ResponseOk(sitemapResponse) /\ sitemapDoc.root = "urlset")
              => sitemapUrls = SomeList(AllLocs(sitemapDoc.url))
        /\ (sitemapResponse.kind = "response" /\ ~ResponseOk(sitemapResponse))
              => sitemapUrls = NullList

\* C11, amended: for a response with a successful status and a urlset,
\* fetchSitemap returns, in document order, the first <loc> of every <url> entry
\* whose first <loc> is not empty, which are all N <loc> entries when every <url>
\* entry holds exactly one <loc> that is not empty; for a status that is not
\* successful it returns null.
C11_FirstLocOfEachEntry ==
    spc = "done" =>
        /\ (ResponseOk(sitemapResponse) /\ sitemapDoc.root = "urlset") =>
              LET es == sitemapDoc.url
                  S  == {i \in 1..Len(es) : es[i].loc # <<>> /\ es[i].loc[1] # <<>>}
              IN  /\ sitemapUrls.kind = "list"
                  /\ sitemapUrls.list =
                        [k \in 1..Cardinality(S) |-> es[Kth(S, k)].loc[1]]
                  /\ (\A i \in 1..Len(es) : Len(es[i].loc) = 1 /\ es[i].loc[1] # <<>>)
                        => sitemapUrls.list = AllLocs(es)
        /\ (sitemapResponse.kind = "response" /\ ~ResponseOk(sitemapResponse))
              => sitemapUrls = NullList

\* a urlset of two <url> entries with one <loc> each, returned in document order
C11_Witness ==
    /\ spc = "done"
    /\ ResponseOk(sitemapResponse)
    /\ sitemapDoc.root = "urlset"
    /\ Len(sitemapDoc.url) = 2
    /\ sitemapUrls = SomeList(<<UrlAbout, UrlFaq>>)

(***************************************************************************)
(* Properties of generateBusinessSummary, checked under SpecSummary.       *)
(***************************************************************************)

\* C17: called with an empty list of pages, generateBusinessSummary returns the
\* text "No content available for analysis." and has called no model.
C17_EmptyCorpusGivesPlaceholder ==
    (analyzedPages = <<>> /\ sumpc # "idle") =>
        /\ sumpc = "done"
        /\ summary = NoContentMessage
        /\ \A i \in 1..Len(log) : log[i].op # "summaryModel"

\* the call with no page has returned
C17_Witness ==
    /\ analyzedPages = <<>>
    /\ sumpc = "done"
    /\ summary = NoContentMessage
    /\ log = <<>>

(***************************************************************************)
(* Properties of WebsiteAnalyzer, checked under SpecAnalyze.               *)
(***************************************************************************)

\* the positions of the history where a call of op started, and where it ended
Starts(op) == {i \in 1..Len(log) : log[i].ev = "start" /\ log[i].op = op}

Ends(op) == {i \in 1..Len(log) : log[i].ev = "end" /\ log[i].op = op}

\* the extractions of the for loop that have ended: those after analyzeWithLLM
LoopExtractions ==
    {i \in Ends("extractPageContent") : \E j \in Ends("analyzeWithLLM") : j < i}

\* C12: a sitemap fetch that is rejected, answered with a status that is not
\* successful, or answered with a body that does not parse makes fetchSitemap
\* return null; after fetchSitemap returned null analyze runs crawlWebsite, once in
\* the call; after it returned a list analyze runs no crawl.
C12_CrawlOnlyAfterNullSitemap ==
    /\ (spc = "done" /\ (\/ sitemapResponse.kind = "rejected"
                         \/ (sitemapResponse.kind = "response"
                               /\ ~ResponseOk(sitemapResponse))
                         \/ sitemapDoc.root = "unparseable"))
          => sitemapUrls = NullList
    /\ \A i \in Ends("fetchSitemap") :
          /\ log[i].out \in {"null", "list"}
          /\ log[i].out = "null" =>
                /\ Cardinality(Starts("crawlWebsite")) = 1
                /\ i + 1 \in Starts("crawlWebsite")
          /\ log[i].out = "list" => Starts("crawlWebsite") = {}
    /\ fn = "crawlWebsite" => Cardinality(Starts("crawlWebsite")) = 1
    /\ Starts("crawlWebsite") # {} =>
          \E i \in Ends("fetchSitemap") : log[i].out = "null"

\* analyze has returned after a sitemap fetch that gave null and one crawl
C12_Witness ==
    /\ apc = "done"
    /\ \E i \in Ends("fetchSitemap") : log[i].out = "null"
    /\ Cardinality(Starts("crawlWebsite")) = 1
    /\ Cardinality(Ends("crawlWebsite")) = 1

\* C14: a page enters the corpus only when an extraction of the for loop returns,
\* and then exactly when the content is longer than 100 characters; the page
\* holds the first 3000 characters of that content, so every page of the corpus
\* holds 101 to 3000 characters; a shorter content or null adds nothing.
C14_CorpusAdmission ==
    /\ [](\A i \in 1..Len(analyzedPages) :
              /\ Len(analyzedPages[i].content) >= AdmitOver + 1
              /\ Len(analyzedPages[i].content) <= CorpusCut)
    /\ [][analyzedPages' # analyzedPages
            => (apc = "extract" /\ pc = "returned" /\ content.kind = "content"
                 /\ Len(content.content) > AdmitOver)]_vars
    /\ [][(apc = "extract" /\ pc = "returned" /\ apc' # apc) =>
            IF content.kind = "content" /\ Len(content.content) > AdmitOver
            THEN /\ Len(analyzedPages') = Len(analyzedPages) + 1
                 /\ SubSeq(analyzedPages', 1, Len(analyzedPages)) = analyzedPages
                 /\ analyzedPages'[Len(analyzedPages')].url = url
                 /\ analyzedPages'[Len(analyzedPages')].content =
                       [i \in 1..Min(CorpusCut, Len(content.content)) |->
                          content.content[i]]
            ELSE analyzedPages' = analyzedPages]_vars

\* a corpus of a page of 101 characters and a page cut from 3001 characters
C14_Witness ==
    /\ Len(analyzedPages) = 2
    /\ Len(analyzedPages[1].content) = AdmitOver + 1
    /\ Len(analyzedPages[2].content) = CorpusCut
    /\ \E i \in LoopExtractions : log[i].len = CorpusCut + 1

\* C15: a navigation or evaluation error in extractPageContent does not leave the
\* function: it returns null after closing the browser; analyze takes a null as
\* nothing to add, waits, and goes on with the next relevant URL, and it returns
\* when the last one is taken.
C15_NullExtractionIsSkipped ==
    /\ [][(fn = "extractPageContent" /\ pc \in {"goto", "evaluate"})
            => pc' \in {"goto", "evaluate", "close"}]_vars
    /\ [][(fn = "extractPageContent" /\ pc = "close" /\ pc' # pc)
            => (pc' = "returned" /\ content' = content)]_vars
    /\ [][(apc = "extract" /\ pc = "returned" /\ content.kind = "null"
             /\ apc' # apc)
            => (apc' = "delay" /\ analyzedPages' = analyzedPages)]_vars
    /\ [][(apc = "delay" /\ apc' # apc) => apc' = "loop"]_vars
    /\ [][(apc = "loop" /\ apc' # apc) =>
            IF relIndex < Len(relevantUrls)
            THEN apc' = "extract" /\ url' = relevantUrls[relIndex + 1]
            ELSE apc' = "done" /\ analyzedPages' = analyzedPages]_vars
    /\ [](apc = "done" => relIndex = Len(relevantUrls))

\* analyze has returned an empty corpus after both selected URLs gave null
C15_Witness ==
    /\ apc = "done"
    /\ Len(relevantUrls) = 2
    /\ Cardinality(LoopExtractions) = 2
    /\ \A i \in LoopExtractions : log[i].out = "null"
    /\ analyzedPages = <<>>

\* the operations in progress
InProgress ==
    (IF spc \in {"fetching", "reading", "parsing"} THEN {"fetchSitemap"} ELSE {})
    \cup (IF pc \in {"launch", "newPage", "loop", "goto", "evaluate", "close"}
          THEN {fn} ELSE {})
    \cup (IF lpc = "awaiting" \/ apc = "nameModel" THEN {"model"} ELSE {})
    \cup (IF apc = "delay" THEN {"delay"} ELSE {})

\* C16: during analyze at most one of the sitemap fetch, the crawl, a page
\* extraction, a model call and the delay is in progress, and at most one browser
\* is open.
C16_OneOperationOneBrowser ==
    /\ Cardinality(InProgress) <= 1
    /\ openBrowsers <= 1

\* C18: without OPENAI_API_KEY the constructor throws: no analyzer exists, and no
\* sitemap fetch, browser launch or model call is made.
C18_NoKeyNoAnalyzer ==
    ~apiKey =>
        /\ apc \in {"idle", "failed"}
        /\ log = <<>>
        /\ openBrowsers = 0
        /\ pc = "idle" /\ spc = "idle" /\ lpc = "idle"

\* the constructor has thrown
C18_Witness == ~apiKey /\ apc = "failed"

\* C19: for https://acme.test, when the sitemap fetch gave null, the crawl found
\* the base URL, /faq and /about, and the model call failed, analyzeWithLLM
\* returns exactly /faq and /about; and when both extractions then give a content
\* of 150 characters, analyze returns a corpus of exactly 2 pages, one per URL.
C19_EndToEnd ==
    /\ (/\ apc = "llm" /\ lpc = "done"
        /\ baseUrl = UrlAcme
        /\ Ends("crawlWebsite") # {}
        /\ Len(urls) = 3 /\ Range(urls) = AcmePool
        /\ response.kind = "rejected")
          => (Len(relevantUrls) = 2
               /\ Range(relevantUrls) = {UrlAcmeFaq, UrlAcmeAbout})
    /\ (/\ apc = "done"
        /\ Len(relevantUrls) = 2
        /\ Range(relevantUrls) = {UrlAcmeFaq, UrlAcmeAbout}
        /\ \A i \in LoopExtractions : log[i].out = "content" /\ log[i].len = 150)
          => (/\ PageCount(analyzedPages) = 2
              /\ \A k \in 1..2 : analyzedPages[k].url = relevantUrls[k]
              /\ \A k \in 1..2 : Len(analyzedPages[k].content) = 150)

\* analyze has returned in that scenario: no sitemap, a crawl, the keyword
\* fallback, two pages of 150 characters
C19_Witness ==
    /\ apc = "done"
    /\ baseUrl = UrlAcme
    /\ \E i \in Ends("fetchSitemap") : log[i].out = "null"
    /\ Ends("crawlWebsite") # {}
    /\ \E i \in Ends("analyzeWithLLM") : log[i].out = "fallback"
    /\ Range(relevantUrls) = {UrlAcmeFaq, UrlAcmeAbout}
    /\ Cardinality(LoopExtractions) = 2
    /\ \A i \in LoopExtractions : log[i].out = "content" /\ log[i].len = 150
    /\ PageCount(analyzedPages) = 2


(***************************************************************************)
(* Further properties of crawlWebsite, checked under Spec and, for         *)
(* termination, under SpecCrawlFair.                                       *)
(***************************************************************************)

\* whether link is a URL of the base URL's host other than the base URL
NewSameHost(link) ==
    /\ ParseUrl(link).ok
    /\ ParseUrl(baseUrl).ok
    /\ ParseUrl(link).hostname = ParseUrl(baseUrl).hostname
    /\ link # baseUrl

\* C23: every list crawlWebsite returns starts with the base URL; and when only the
\* base page was visited and it gave no new link of the base URL's host (no link,
\* links of other hosts only, or a failed load), the list is the base URL alone.
C23_BaseUrlFirstAndAlone ==
    (pc = "returned" /\ fn = "crawlWebsite") =>
        /\ result # <<>>
        /\ result[1] = baseUrl
        /\ ( /\ Len(visitedUrls) <= 1
             /\ \/ errors = 1
                \/ \A i \in 1..Len(links) : ~NewSameHost(links[i]) )
              => result = <<baseUrl>>

\* a crawl allowed two pages whose base page linked only to another host
C23_Witness ==
    /\ pc = "returned" /\ fn = "crawlWebsite"
    /\ maxPages >= 2
    /\ visitedUrls = <<baseUrl>>
    /\ errors = 0
    /\ links # <<>>
    /\ \A i \in 1..Len(links) : ParseUrl(links[i]).hostname # ParseUrl(baseUrl).hostname
    /\ result = <<baseUrl>>

\* C24: a call of crawlWebsite whose promises all settle ends, by returning or by
\* throwing; every navigation it starts is for a newly visited URL, and it starts
\* at most maxPages of them.
C24_CrawlTerminates ==
    /\ (pc = "launch" /\ fn = "crawlWebsite") ~> (pc \in {"returned", "thrown"})
    /\ [][(pc' = "goto" /\ pc # "goto") =>
            /\ Len(visitedUrls') = Len(visitedUrls) + 1
            /\ Len(visitedUrls') <= maxPages]_vars

\* a crawl of a cyclic link graph that ended at the page bound, with no failed load
\* and with discovered pages left unvisited
C24_Witness ==
    /\ pc = "returned" /\ fn = "crawlWebsite"
    /\ errors = 0
    /\ maxPages >= 2
    /\ Len(visitedUrls) = maxPages
    /\ baseUrl \in Range(links)
    /\ urlsToVisit # <<>>

\* C25: the visited URLs are, in order, the first discovered URLs.
C25_VisitedIsPrefixOfDiscovered ==
    /\ Len(visitedUrls) <= Len(foundUrls)
    /\ visitedUrls = Take(foundUrls, Len(visitedUrls))

\* the third page is being loaded and a fourth URL was discovered after it
C25_Witness ==
    /\ pc = "goto" /\ fn = "crawlWebsite"
    /\ Len(visitedUrls) = 3
    /\ Len(foundUrls) = 4
    /\ errors = 0

\* C27: the URL taken from the frontier is never a visited one: no frontier entry is
\* visited, and every pass through the loop body adds the taken URL to the visited
\* ones and goes on to load it.
C27_DequeuedNeverVisited ==
    /\ [](Range(urlsToVisit) \cap Range(visitedUrls) = {})
    /\ [][(pc = "loop" /\ LoopCond) =>
            /\ Head(urlsToVisit) \notin Range(visitedUrls)
            /\ visitedUrls' = Append(visitedUrls, Head(urlsToVisit))
            /\ pc' = "goto"]_vars

\* the second page is being loaded after the first page linked to itself
C27_Witness ==
    /\ pc = "goto" /\ fn = "crawlWebsite"
    /\ Len(visitedUrls) = 2
    /\ visitedUrls[1] \in Range(links)
    /\ currentUrl = visitedUrls[2]


(***************************************************************************)
(* Further properties of extractPageContent, checked under Spec.           *)
(***************************************************************************)

\* the text of the first container that exists among <main>, <article>, .content
\* and #content, in that order, and the text of the body when none exists
FirstPresentContainer(nodes) ==
    IF QueryText(nodes, "main").present THEN QueryText(nodes, "main").text
    ELSE IF QueryText(nodes, "article").present THEN QueryText(nodes, "article").text
    ELSE IF QueryText(nodes, ".content").present THEN QueryText(nodes, ".content").text
    ELSE IF QueryText(nodes, "#content").present THEN QueryText(nodes, "#content").text
    ELSE TextContent(nodes)

\* C22: the content extractPageContent returns is the text, white space collapsed
\* and trimmed, of the first container that exists in the document after the
\* non-content regions were removed, in the order <main>, <article>, .content,
\* #content, body.
C22_FirstPresentContainer ==
    (pc = "returned" /\ fn = "extractPageContent" /\ content.kind = "content") =>
        content.content =
            trim(CollapseSpace(FirstPresentContainer(Cleaned(document.body))))


(***************************************************************************)
(* Further properties of WebsiteAnalyzer.analyze, checked under            *)
(* SpecAnalyze.                                                            *)
(***************************************************************************)

\* C21: in the for loop of analyze every extraction that returned, a content or
\* null, is followed at once by the start of one delay of 1000 ms for its URL; an
\* extraction of the loop starts only when no delay runs, and after the first one
\* only as the step after the end of the previous delay; and when analyze has
\* returned there were as many delays as relevant URLs.
C21_OneDelayPerExtraction ==
    /\ [](\A i \in LoopExtractions :
            log[i].out \in {"content", "null"} =>
                /\ i < Len(log)
                /\ log[i + 1] = Entry("start", "delay", log[i].url, "", DelayMs))
    /\ [](/\ Cardinality(Ends("delay")) <= Cardinality(Starts("delay"))
          /\ Cardinality(Starts("delay")) <= Cardinality(Ends("delay")) + 1
          /\ Cardinality(Starts("delay")) = Cardinality(Ends("delay")) + 1
                <=> apc = "delay")
    /\ [](apc = "done" =>
            /\ Cardinality(Starts("delay")) = Len(relevantUrls)
            /\ Cardinality(Ends("delay")) = Len(relevantUrls)
            /\ Cardinality(LoopExtractions) = Len(relevantUrls))
    /\ [][(apc' = "extract" /\ apc # "extract") =>
            /\ apc = "loop"
            /\ relIndex > 0 =>
                  log[Len(log)] = Entry("end", "delay", relevantUrls[relIndex], "",
                                        DelayMs)]_vars

\* analyze returned after two extractions, one pushed and one skipped, each
\* followed by its delay
C21_Witness ==
    /\ apc = "done"
    /\ Len(relevantUrls) = 2
    /\ PageCount(analyzedPages) = 1
    /\ Cardinality(Ends("delay")) = 2
    /\ \E i \in LoopExtractions : log[i].out = "null"

\* whether a parsed sitemap document holds no URL: its root is not a urlset, or
\* the urlset has no url entry, or no url entry has a loc with text
HoldsNoUrl(doc) ==
    /\ doc.root \in {"urlset", "sitemapindex"}
    /\ \/ doc.root # "urlset"
       \/ \A i \in 1..Len(doc.url) : doc.url[i].loc = <<>> \/ doc.url[i].loc[1] = <<>>

\* C28: when the sitemap body parses to a document that holds no URL, fetchSitemap
\* returns the empty list, not null; analyze takes an empty list from fetchSitemap
\* to analyzeWithLLM as it is, without a crawl; and an empty list reaches
\* analyzeWithLLM only when no crawl ran.
C28_EmptySitemapIsNotNull ==
    /\ []((spc = "done" /\ HoldsNoUrl(sitemapDoc)) => sitemapUrls = SomeList(<<>>))
    /\ [][(apc = "sitemap" /\ spc = "done" /\ sitemapUrls = SomeList(<<>>)) =>
            /\ apc' = "llm"
            /\ lpc' = "awaiting"
            /\ urls' = <<>>
            /\ prompt'.urlList = <<>>
            /\ pc' = "idle" /\ fn' = "none"]_vars
    /\ []((apc = "llm" /\ urls = <<>>) => Starts("crawlWebsite") = {})

\* analyzeWithLLM was called with the empty list of a sitemap, and no crawl ran
C28_Witness ==
    /\ apc = "llm" /\ lpc = "awaiting"
    /\ urls = <<>>
    /\ \E i \in Ends("fetchSitemap") : log[i].out = "list"
    /\ Starts("crawlWebsite") = {}

\* whether the company-name extraction failed: the page extraction gave null or
\* threw, the model call rejected, or the answer held no name
NameFailed ==
    \/ log[2].out \in {"null", "thrown"}
    \/ response.kind \in {"rejected", "emptyChoices", "noMessage", "nullContent",
                          "noChoicesArray"}
    \/ /\ response.kind = "content"
       /\ \A i \in 1..Len(response.content) : IsSpace(response.content[i])

\* C30: analyze first extracts the base URL's page, once, and asks the model for
\* the name at most once, only after a content was extracted; the sitemap fetch
\* starts after both have ended.  However the name extraction ends, analyze goes on
\* to the sitemap fetch with no browser call, model call or sitemap call running
\* and an empty corpus; after a failure the company name is null; analyze rejects
\* only after the sitemap fetch has started.
C30_NameExtractionNeverAborts ==
    /\ [](log # <<>> => log[1] = Entry("start", "extractPageContent", baseUrl, "", 0))
    /\ [](\A i \in Starts("fetchSitemap") :
            /\ log[2].ev = "end" /\ log[2].op = "extractPageContent"
            /\ log[2].url = baseUrl
            /\ {j \in Starts("extractPageContent") : j < i} = {1}
            /\ Cardinality(Starts("nameModel")) = (IF log[2].out = "content" THEN 1 ELSE 0)
            /\ \A j \in Starts("nameModel") : j = 3 /\ i = 5
            /\ Cardinality(Ends("nameModel")) = Cardinality(Starts("nameModel")))
    /\ [](apc = "callSitemap" =>
            /\ NameFailed => companyName = Absent
            /\ pc = "idle" /\ fn = "none" /\ browser = "none"
            /\ lpc = "idle" /\ spc = "idle"
            /\ urls = <<>> /\ relevantUrls = <<>>
            /\ analyzedPages = <<>> /\ relIndex = 0)
    /\ [](apc = "thrown" => Starts("fetchSitemap") # {})
    /\ [][(apc \in {"name", "nameModel"}) =>
            (apc' \in {"name", "nameModel", "callSitemap"})]_vars

\* analyze returned a corpus of two pages after the name's page extraction threw
C30_Witness ==
    /\ apc = "done"
    /\ log[2] = Entry("end", "extractPageContent", baseUrl, "thrown", 0)
    /\ companyName = Absent
    /\ PageCount(analyzedPages) = 2


(***************************************************************************)
(* The corpus over several analyze calls, checked under SpecReanalyze.     *)
(***************************************************************************)

C26_BotFileOnlyForCreatedBot ==
    /\ [](requests > 0 => (createBot /\ sensayConfig.present))
    /\ [](requests <= 1)
    /\ [](bot.kind = "bot" =>
            /\ requests = 1
            /\ postResponse.kind = "response"
            /\ postResponse.status \in PostOkStatuses)
    /\ [](BotInfoFile \in files => bot.kind = "bot")
    /\ [](svpc = "done" => (BotInfoFile \in files <=> bot.kind = "bot"))
    /\ [][(svpc \in {"loadKnowledgeBase", "post"}) =>
            (svpc' \in {"loadKnowledgeBase", "post", "writeBot", "done"})]_vars
    /\ [][(bot' # bot /\ bot'.kind # "bot") =>
            /\ bot' = NullBot
            /\ svpc' = "done"
            /\ files' = files]_vars

\* saveResults returned after the replica-creation request was rejected with
\* status 401: no bot, no descriptor, the other files written
C26_Witness ==
    /\ svpc = "done"
    /\ createBot /\ sensayConfig.present
    /\ requests = 1
    /\ postResponse = [kind |-> "response", status |-> 401]
    /\ bot = NullBot
    /\ files = {KnowledgeBaseFile, RawDataFile, SystemMessageFile}

====
